---- MODULE Spec2Model ----
(***************************************************************************)
(* A model of the layered tracing interpreter of jax/core.py and of the    *)
(* partial-evaluation engine of jax/interpreters/partial_eval.py.          *)
(*                                                                         *)
(* Python objects with identity (tracers, equation recipes, layer groups,  *)
(* raw array values) are indices into sequences or carry an object id.     *)
(* An engine state S is the thread-local trace state (layer stack and      *)
(* sublevel stack) together with the heap of the objects created so far    *)
(* and the pending exception, if any.                                      *)
(***************************************************************************)
EXTENDS Integers, Sequences, FiniteSets, TLC

\* ------------------------------------------------------------- values

\* core.unit, the value of a side-effect-only result.
unit == [k |-> "unit", sc |-> TRUE, v |-> 0, id |-> 0]

\* A raw (non-tracer) numeric value: sc says it is a scalar of a literalable
\* type, v is its contents, id its object identity (Python's id()).
Raw(sc, v, id) == [k |-> "raw", sc |-> sc, v |-> v, id |-> id]

\* A reference to the tracer object at heap index t.
TrRef(t) == [k |-> "tr", sc |-> TRUE, v |-> 0, id |-> t]

\* isinstance(x, Tracer)
IsTracer(x) == x.k = "tr"

\* Two values hold the same data (object identity of raw values aside).
SameValue(a, b) == a.k = b.k /\ a.sc = b.sc /\ a.v = b.v /\ (a.k = "tr" => a.id = b.id)

\* The Known arm of a partial value's pv.
None == "None"

\* core.abstract_unit, and the two array types the primitives' rules know.
abstract_unit == "abstract_unit"
ShapedScalar == "int[]"
ShapedArray == "int[n]"

\* isinstance(pv, AbstractValue)
IsAbstractValue(pv) == pv \in {abstract_unit, ShapedScalar, ShapedArray}

PartialVal(pv, const) == [pv |-> pv, const |-> const]

\* ------------------------------------------------------------- jaxprs

Var(n) == [k |-> "Var", n |-> n, val |-> unit]
unitvar == [k |-> "unitvar", n |-> 0, val |-> unit]
Literal(val) == [k |-> "Literal", n |-> 0, val |-> val]

Jaxpr(constvars, invars, outvars, eqns) ==
  [constvars |-> constvars, invars |-> invars, outvars |-> outvars, eqns |-> eqns]

TypedJaxpr(jaxpr, literals, in_avals, out_avals) ==
  [jaxpr |-> jaxpr, literals |-> literals, in_avals |-> in_avals, out_avals |-> out_avals]

new_jaxpr_eqn(invars, outvars, primitive, params) ==
  [invars |-> invars, outvars |-> outvars, primitive |-> primitive, params |-> params]

\* ------------------------------------------------------------- recipes

LambdaBinding == [k |-> "LambdaBinding", n |-> 0, val |-> unit]
FreeVar(val) == [k |-> "FreeVar", n |-> 0, val |-> val]
ConstVar(val) == [k |-> "ConstVar", n |-> 0, val |-> val]
UnitRecipe == [k |-> "unit", n |-> 0, val |-> unit]
NoRecipe == [k |-> "None", n |-> 0, val |-> unit]
\* A tracer's reference to the equation recipe object at index e.
EqnRecipeRef(e) == [k |-> "JaxprEqnRecipe", n |-> e, val |-> unit]

\* ------------------------------------------------------------- primitives

\* The registered primitives: sub has one result, addsub is a
\* multiple-results primitive.
Primitives == {"sub", "addsub"}

multiple_results(primitive) == primitive = "addsub"

\* ------------------------------------------------------------- engine state

NoError == "none"
EscapedTracerError == "escaped_tracer_error"

\* The state of a fresh thread: TraceState.__init__ and an empty heap.
EmptyState ==
  [heap |-> <<>>, recipes |-> <<>>, masters |-> <<>>,
   upward |-> <<>>, downward |-> <<>>, substack |-> <<0>>,
   nobj |-> 100, cell |-> <<>>, check_leaks |-> FALSE, err |-> NoError,
   calls |-> <<>>, aux |-> <<>>, cache |-> <<>>]

\* The call of a rule or of a layer's method, as the engine state records it
\* in calls: what was called, on which layer, with which arguments.
Call(op, trace, args) == [op |-> op, trace |-> trace, args |-> args]

\* The state after the call is recorded.
Called(S, op, trace, args) == [S EXCEPT !.calls = Append(@, Call(op, trace, args))]

\* A result of an engine operation: the state after it and what it returns.
Ret(S, out) == [S |-> S, out |-> out]

\* The element of a singleton set: Only({e(r) : r \in {v}}) is e(v), with v
\* computed once.
Only(s) == CHOOSE v \in s : TRUE

\* The operation raises: the state keeps the exception.
Raise(S, e) == Ret([S EXCEPT !.err = e], unit)

Failed(S) == S.err # NoError

MasterTrace(level, trace_type) == [level |-> level, trace_type |-> trace_type]

\* next_level counting the bottom groups from zero.
next_level_from_zero(S, bottom) == IF bottom THEN -Len(S.downward) ELSE Len(S.upward)

next_level(S, bottom) == IF bottom THEN -(Len(S.downward) + 1) ELSE Len(S.upward)

cur_sublevel(S) == S.substack[Len(S.substack)]

\* Trace.__init__: a layer of group (master id) m at a sublevel.
Trace(S, m, sublevel) == [m |-> m, level |-> S.masters[m].level, sublevel |-> sublevel]

NoTrace == [m |-> 0, level |-> 0, sublevel |-> 0]

\* The layer owning tracer value x (x._trace).
TraceOf(S, x) == S.heap[x.id].trace

\* ------------------------------------------------------------- tracers

\* JaxprTracer.__init__: a new tracer object owned by layer trace; a const
\* that is a tracer of the same or a higher level is refused.
JaxprTracer(S, trace, pval, recipe) ==
  IF IsTracer(pval.const) /\ TraceOf(S, pval.const).level >= trace.level
  THEN Raise(S, EscapedTracerError)
  ELSE Ret([S EXCEPT !.heap = Append(@, [trace |-> trace, pval |-> pval, recipe |-> recipe])],
           TrRef(Len(S.heap) + 1))

\* JaxprTracer.ispure
ispure(S, x) == S.heap[x.id].pval.pv = None

\* core.full_lower with JaxprTracer.full_lower: a Known tracer unwraps to its
\* constant, recursively.
RECURSIVE full_lower(_, _)
full_lower(S, val) ==
  IF IsTracer(val) /\ ispure(S, val) THEN full_lower(S, S.heap[val.id].pval.const) ELSE val

\* The abstract value of a raw value (core.concrete_aval).
concrete_aval(x) ==
  IF x.k = "unit" THEN abstract_unit ELSE IF x.sc THEN ShapedScalar ELSE ShapedArray

\* core.get_aval with JaxprTracer.aval and partial_val_aval.
RECURSIVE get_aval(_, _)
get_aval(S, x) ==
  IF IsTracer(x)
  THEN LET pval == S.heap[x.id].pval
       IN IF IsAbstractValue(pval.pv) THEN pval.pv ELSE get_aval(S, pval.const)
  ELSE concrete_aval(x)

\* JaxprTrace.new_const
new_const(S, trace, val) ==
  IF IsTracer(val) /\ TraceOf(S, val).level = trace.level
  THEN Raise(S, "Exception")
  ELSE JaxprTracer(S, trace, PartialVal(None, val), UnitRecipe)

\* JaxprTrace.pure
pure(S, trace, val) == new_const(S, trace, val)

\* lift wrapping the value as an Unknown constant-variable instead of a Known
\* constant.
lift_unknown(S, trace, val) ==
  JaxprTracer(S, trace, PartialVal(get_aval(S, val), unit), ConstVar(val))

\* JaxprTrace.lift
lift(S, trace, val) == new_const(S, trace, val)

\* sublift keeping the recipe of the source tracer.
sublift_same_recipe(S, trace, val) ==
  JaxprTracer(S, trace, S.heap[val.id].pval, S.heap[val.id].recipe)

\* JaxprTrace.sublift
sublift(S, trace, val) == JaxprTracer(S, trace, S.heap[val.id].pval, FreeVar(val))

\* JaxprTrace.new_arg
new_arg(S, trace, pval) == JaxprTracer(S, trace, pval, LambdaBinding)

\* JaxprTrace.new_instantiated_literal
new_instantiated_literal(S, trace, val) ==
  JaxprTracer(S, trace, PartialVal(get_aval(S, val), unit), Literal(val))

\* new_instantiated_const giving the tracer a literal recipe.
new_instantiated_const_literal(S, trace, val) ==
  JaxprTracer(S, trace, PartialVal(get_aval(S, val), unit), Literal(val))

\* JaxprTrace.new_instantiated_const
new_instantiated_const(S, trace, val) ==
  JaxprTracer(S, trace, PartialVal(get_aval(S, val), unit), ConstVar(val))

\* type(const) in core.literalable_types and onp.shape(const) == ()
IsScalarLiteralable(const) == const.k = "unit" \/ (const.k = "raw" /\ const.sc)

\* instantiate_const hoisting every Known constant, scalars too.
instantiate_const_hoisting(S, trace, tracer) ==
  LET pval == S.heap[tracer.id].pval
  IN IF IsAbstractValue(pval.pv) THEN Ret(S, tracer)
     ELSE IF pval.pv = None THEN new_instantiated_const(S, trace, pval.const)
     ELSE Raise(S, "TypeError")

\* JaxprTrace.instantiate_const
instantiate_const(S, trace, tracer) ==
  LET pval == S.heap[tracer.id].pval
  IN IF IsAbstractValue(pval.pv) THEN Ret(S, tracer)
     ELSE IF pval.pv = None
     THEN IF IsScalarLiteralable(pval.const)
          THEN new_instantiated_literal(S, trace, pval.const)
          ELSE new_instantiated_const(S, trace, pval.const)
     ELSE Raise(S, "TypeError")

\* full_raise comparing the groups with MasterTrace.__eq__ (level and layer
\* type) instead of by identity.
full_raise_by_equality(S, trace, val) ==
  IF ~IsTracer(val) THEN pure(S, trace, val)
  ELSE LET vt == TraceOf(S, val)
       IN IF S.masters[vt.m] = S.masters[trace.m]
          THEN IF vt.sublevel = trace.sublevel THEN Ret(S, val)
               ELSE IF vt.sublevel < trace.sublevel THEN sublift(S, trace, val)
               ELSE Raise(S, EscapedTracerError)
          ELSE IF vt.level < trace.level
          THEN IF vt.sublevel > trace.sublevel THEN Raise(S, EscapedTracerError)
               ELSE lift(S, trace, val)
          ELSE Raise(S, EscapedTracerError)

\* full_raise without the tests for a source of a higher sublevel: such a
\* source is sublifted within its group and lifted from a lower group.
full_raise_any_sublevel(S, trace, val) ==
  IF ~IsTracer(val) THEN pure(S, trace, val)
  ELSE LET vt == TraceOf(S, val)
       IN IF vt.m = trace.m
          THEN IF vt.sublevel = trace.sublevel THEN Ret(S, val)
               ELSE sublift(S, trace, val)
          ELSE IF vt.level < trace.level THEN lift(S, trace, val)
          ELSE Raise(S, EscapedTracerError)

\* Trace.full_raise
full_raise(S, trace, val) ==
  IF ~IsTracer(val) THEN pure(S, trace, val)
  ELSE LET vt == TraceOf(S, val)
       IN IF vt.m = trace.m
          THEN IF vt.sublevel = trace.sublevel THEN Ret(S, val)
               ELSE IF vt.sublevel < trace.sublevel THEN sublift(S, trace, val)
               ELSE Raise(S, EscapedTracerError)
          ELSE IF vt.level < trace.level
          THEN IF vt.sublevel > trace.sublevel THEN Raise(S, EscapedTracerError)
               ELSE lift(S, trace, val)
          ELSE Raise(S, EscapedTracerError)

\* max(..., key=attrgetter('level')): the first element of the highest level.
RECURSIVE MaxLevelTracer(_, _, _, _)
MaxLevelTracer(S, xs, i, best) ==
  IF i > Len(xs) THEN best
  ELSE IF IsTracer(xs[i]) /\ (best = 0 \/ TraceOf(S, xs[i]).level > TraceOf(S, xs[best]).level)
       THEN MaxLevelTracer(S, xs, i + 1, i)
       ELSE MaxLevelTracer(S, xs, i + 1, best)

\* find_top_trace taking the layer of the first tracer among the arguments
\* instead of the one of the highest level.
find_top_trace_first(S, xs) ==
  LET ts == {i \in 1..Len(xs) : IsTracer(xs[i])}
  IN IF ts = {} THEN NoTrace
     ELSE Trace(S, TraceOf(S, xs[CHOOSE i \in ts : \A j \in ts : i <= j]).m, cur_sublevel(S))

\* core.find_top_trace
find_top_trace(S, xs) ==
  LET i == MaxLevelTracer(S, xs, 1, 0)
  IN IF i = 0 THEN NoTrace ELSE Trace(S, TraceOf(S, xs[i]).m, cur_sublevel(S))

\* map(f, xs) for an engine operation f(S, trace, x), left to right; the first
\* exception ends it.
RECURSIVE MapRaise(_, _, _, _)
MapRaise(S, trace, xs, acc) ==
  IF Failed(S) \/ Len(acc) = Len(xs) THEN Ret(S, acc)
  ELSE Only({MapRaise(r.S, trace, xs, Append(acc, r.out)) :
               r \in {full_raise(S, trace, xs[Len(acc) + 1])}})

RECURSIVE MapInstantiate(_, _, _, _)
MapInstantiate(S, trace, xs, acc) ==
  IF Failed(S) \/ Len(acc) = Len(xs) THEN Ret(S, acc)
  ELSE Only({MapInstantiate(r.S, trace, xs, Append(acc, r.out)) :
               r \in {instantiate_const(S, trace, xs[Len(acc) + 1])}})

\* ------------------------------------------------------------- rules

\* The concrete-evaluation rules of the registered primitives, on raw
\* values; the results are new objects.
impl(S, primitive, args) ==
  IF \E i \in 1..Len(args) : args[i].k # "raw"
  THEN Raise(Called(S, "impl", NoTrace, args), "TypeError")
  ELSE LET sc == args[1].sc /\ args[2].sc
           a == args[1].v
           b == args[2].v
           S1 == Called(S, "impl", NoTrace, args)
       IN IF primitive = "sub"
          THEN Ret([S1 EXCEPT !.nobj = @ + 1], <<Raw(sc, a - b, S.nobj)>>)
          ELSE IF primitive = "add"
          THEN Ret([S1 EXCEPT !.nobj = @ + 1], <<Raw(sc, a + b, S.nobj)>>)
          ELSE IF primitive = "mul"
          THEN Ret([S1 EXCEPT !.nobj = @ + 1], <<Raw(sc, a * b, S.nobj)>>)
          ELSE Ret([S1 EXCEPT !.nobj = @ + 2],
                   <<Raw(sc, a + b, S.nobj), Raw(sc, a - b, S.nobj + 1)>>)

\* The abstract-evaluation rules of the registered primitives.
abstract_eval(primitive, avals) ==
  LET out == IF \E i \in 1..Len(avals) : avals[i] = ShapedArray
             THEN ShapedArray ELSE ShapedScalar
  IN IF multiple_results(primitive) THEN <<out, out>> ELSE <<out>>

\* new_eqn_recipe: a new recipe object; its outvars are weak references.
new_eqn_recipe(S, invars, outvars, primitive, params) ==
  Ret([S EXCEPT !.recipes = Append(@, [invars |-> invars, outvars |-> outvars,
                                       primitive |-> primitive, params |-> params])],
      EqnRecipeRef(Len(S.recipes) + 1))

\* out_tracer.recipe = eqn for every tracer of ts.
SetRecipe(S, ts, recipe) ==
  [S EXCEPT !.heap = [i \in 1..Len(S.heap) |->
     IF \E j \in 1..Len(ts) : ts[j].id = i THEN [S.heap[i] EXCEPT !.recipe = recipe]
     ELSE S.heap[i]]]

\* [JaxprTracer(self, PartialVal((aval, unit)), None) for aval in out_aval]
RECURSIVE NewOutTracers(_, _, _, _)
NewOutTracers(S, trace, pvals, acc) ==
  IF Failed(S) \/ Len(acc) = Len(pvals) THEN Ret(S, acc)
  ELSE Only({NewOutTracers(r.S, trace, pvals, Append(acc, r.out)) :
               r \in {JaxprTracer(S, trace, pvals[Len(acc) + 1], NoRecipe)}})

RECURSIVE bind(_, _, _)

\* The eqn and the out_tracers of default_process_primitive for instantiated
\* tracers r (a result of map(self.instantiate_const, tracers)); the
\* abstract-evaluation rule refuses a unit.
stage_equation(trace, primitive, r) ==
  IF Failed(r.S) THEN Ret(r.S, <<>>)
  ELSE Only({
    IF \E i \in 1..Len(avals) : avals[i] = abstract_unit
    THEN Ret([r.S EXCEPT !.err = "TypeError"], <<>>)
    ELSE Only({
      IF Failed(r2.S) THEN Ret(r2.S, <<>>)
      ELSE Only({Ret(SetRecipe(r3.S, r2.out, r3.out), r2.out) :
                   r3 \in {new_eqn_recipe(r2.S, r.out, r2.out, primitive, "")}}) :
      r2 \in {NewOutTracers(r.S, trace,
                [i \in 1..Len(abstract_eval(primitive, avals)) |->
                   PartialVal(abstract_eval(primitive, avals)[i], unit)], <<>>)}}) :
    avals \in {[i \in 1..Len(r.out) |-> get_aval(r.S, r.out[i])]}})

\* default_process_primitive without the all-Known case: every application
\* is staged.
default_process_primitive_staging(S, trace, primitive, tracers) ==
  stage_equation(trace, primitive, MapInstantiate(S, trace, tracers, <<>>))

\* JaxprTrace.default_process_primitive
default_process_primitive(S, trace, primitive, tracers) ==
  LET pvals == [i \in 1..Len(tracers) |-> S.heap[tracers[i].id].pval]
  IN IF \A i \in 1..Len(pvals) : pvals[i].pv = None
     THEN bind(S, primitive, [i \in 1..Len(pvals) |-> pvals[i].const])
     ELSE stage_equation(trace, primitive, MapInstantiate(S, trace, tracers, <<>>))

\* JaxprTrace.process_primitive (no custom partial-evaluation rule is
\* registered for the primitives of the model).
process_primitive(S, trace, primitive, tracers) ==
  default_process_primitive(Called(S, "process_primitive", trace, tracers),
                            trace, primitive, tracers)

\* Primitive.bind; the result is always the sequence of the outputs.
bind(S, primitive, args) ==
  IF Failed(S) THEN Ret(S, <<>>)
  ELSE Only({
    IF top_trace.m = 0
    THEN Only({IF Failed(r.S) THEN Ret(r.S, <<>>) ELSE r : r \in {impl(S, primitive, args)}})
    ELSE Only({
      IF Failed(r1.S) THEN Ret(r1.S, <<>>)
      ELSE Only({
        IF Failed(r2.S) THEN Ret(r2.S, <<>>)
        ELSE Ret(r2.S, [i \in 1..Len(r2.out) |-> full_lower(r2.S, r2.out[i])]) :
        r2 \in {process_primitive(r1.S, top_trace, primitive, r1.out)}}) :
      r1 \in {MapRaise(S, top_trace, args, <<>>)}}) :
    top_trace \in {find_top_trace(S, args)}})

\* ------------------------------------------------------------- linearization

\* JaxprTracer.parents
parents(S, t) ==
  LET recipe == S.heap[t].recipe
  IN IF recipe.k = "JaxprEqnRecipe"
     THEN {S.recipes[recipe.n].invars[i].id : i \in 1..Len(S.recipes[recipe.n].invars)}
     ELSE {}

\* The tracers reachable from the set ts along parents.
RECURSIVE Reachable(_, _)
Reachable(S, ts) ==
  LET more == ts \cup UNION {parents(S, t) : t \in ts}
  IN IF more = ts THEN ts ELSE Reachable(S, more)

\* The elements of a set of heap indices in creation order.
RECURSIVE Ascending(_)
Ascending(ts) ==
  IF ts = {} THEN <<>>
  ELSE LET m == CHOOSE x \in ts : \A y \in ts : x <= y
       IN <<m>> \o Ascending(ts \ {m})

\* util.toposort: the tracers reachable from the end nodes, parents first.
\* A tracer's parents are created before it, so creation order is such an
\* order.
toposort(S, end_nodes) ==
  Only({[i \in 1..Len(sorted) |-> TrRef(sorted[i])] :
          sorted \in {Ascending(Reachable(S, {end_nodes[i].id : i \in 1..Len(end_nodes)}))}})

\* The loop state of tracers_to_jaxpr: the gensym counter, t_to_var,
\* const_to_var, the ordered dicts env and consts (as sequences of
\* (variable, value) pairs), eqns and processed_eqn_ids.
EmptyLoop ==
  [count |-> 0, t_to_var |-> [x \in {} |-> unitvar], const_to_var |-> [x \in {} |-> unitvar],
   env |-> <<>>, consts |-> <<>>, eqns |-> <<>>, processed_eqn_ids |-> {}, err |-> NoError]

\* getvar: t_to_var[id(t)] of a defaultdict(newvar).
getvar(L, t) ==
  IF t.id \in DOMAIN L.t_to_var THEN Ret(L, L.t_to_var[t.id])
  ELSE Ret([L EXCEPT !.t_to_var = (t.id :> Var(L.count)) @@ @, !.count = @ + 1], Var(L.count))

\* map(getvar, ts)
RECURSIVE MapGetvar(_, _, _)
MapGetvar(L, ts, acc) ==
  IF Len(acc) = Len(ts) THEN Ret(L, acc)
  ELSE Only({MapGetvar(r.S, ts, Append(acc, r.out)) : r \in {getvar(L, ts[Len(acc) + 1])}})

\* recipe_to_eqn with the inputs of the equation in reverse order.
recipe_to_eqn_reversed(L, recipe) ==
  Only({Only({Ret(r2.S, new_jaxpr_eqn([i \in 1..Len(r1.out) |-> r1.out[Len(r1.out) + 1 - i]],
                                      r2.out, recipe.primitive, recipe.params)) :
                r2 \in {MapGetvar(r1.S, recipe.outvars, <<>>)}}) :
          r1 \in {MapGetvar(L, recipe.invars, <<>>)}})

\* recipe_to_eqn: an output tracer that is gone, or has no variable yet,
\* gets a fresh variable.
recipe_to_eqn(L, recipe) ==
  Only({Only({Ret(r2.S, new_jaxpr_eqn(r1.out, r2.out, recipe.primitive, recipe.params)) :
                r2 \in {MapGetvar(r1.S, recipe.outvars, <<>>)}}) :
          r1 \in {MapGetvar(L, recipe.invars, <<>>)}})

\* d[key] = val on an ordered dict: a key that is present keeps its place.
DictSet(d, key, val) ==
  IF \E i \in 1..Len(d) : d[i][1] = key
  THEN [i \in 1..Len(d) |-> IF d[i][1] = key THEN <<key, val>> ELSE d[i]]
  ELSE Append(d, <<key, val>>)

\* id(recipe.val)
ObjectId(val) == <<val.k, val.id>>

\* The test comparing the tracers by their contents instead of by identity.
not_in_tracer_by_contents(S, in_tracers, t) ==
  \A i \in 1..Len(in_tracers) : S.heap[in_tracers[i].id] # S.heap[t.id]

\* all(t is not in_tracer for in_tracer in in_tracers)
not_in_tracer(S, in_tracers, t) == \A i \in 1..Len(in_tracers) : in_tracers[i].id # t.id

\* The equation recipes count as never processed.
eqn_processed_never(L, recipe) == FALSE

\* recipe.eqn_id in processed_eqn_ids
eqn_processed(L, recipe) == recipe.n \in L.processed_eqn_ids

\* The body of the loop of tracers_to_jaxpr for tracer t.
tracers_to_jaxpr_step(S, L, in_tracers, t) ==
  LET recipe == S.heap[t.id].recipe
  IN IF recipe.k = "JaxprEqnRecipe"
     THEN IF ~eqn_processed(L, recipe)
          THEN Only({[r.S EXCEPT !.eqns = Append(@, r.out),
                                 !.processed_eqn_ids = @ \cup {recipe.n}] :
                       r \in {recipe_to_eqn(L, S.recipes[recipe.n])}})
          ELSE L
     ELSE IF recipe.k = "LambdaBinding"
     THEN IF not_in_tracer(S, in_tracers, t)
          THEN [L EXCEPT !.err = EscapedTracerError]
          ELSE L
     ELSE IF recipe.k = "FreeVar"
     THEN Only({[r.S EXCEPT !.env = DictSet(@, r.out, recipe.val)] : r \in {getvar(L, t)}})
     ELSE IF recipe.k = "ConstVar"
     THEN LET key == ObjectId(recipe.val)
              known == key \in DOMAIN L.const_to_var
              v == IF known THEN L.const_to_var[key] ELSE Var(L.count)
          IN [L EXCEPT !.count = IF known THEN @ ELSE @ + 1,
                       !.const_to_var = (key :> v) @@ @,
                       !.t_to_var = (t.id :> v) @@ @,
                       !.consts = DictSet(@, v, recipe.val)]
     ELSE IF recipe.k = "Literal"
     THEN [L EXCEPT !.t_to_var = (t.id :> recipe) @@ @]
     ELSE IF recipe.k = "unit"
     THEN [L EXCEPT !.t_to_var = (t.id :> unitvar) @@ @]
     ELSE [L EXCEPT !.err = "TypeError"]

\* The loop of tracers_to_jaxpr walking sorted_tracers from its end.
RECURSIVE tracers_to_jaxpr_loop_backwards(_, _, _, _, _)
tracers_to_jaxpr_loop_backwards(S, L, in_tracers, sorted_tracers, i) ==
  IF i > Len(sorted_tracers) \/ L.err # NoError THEN L
  ELSE tracers_to_jaxpr_loop_backwards(S,
         tracers_to_jaxpr_step(S, L, in_tracers, sorted_tracers[Len(sorted_tracers) + 1 - i]),
         in_tracers, sorted_tracers, i + 1)

RECURSIVE tracers_to_jaxpr_loop(_, _, _, _, _)
tracers_to_jaxpr_loop(S, L, in_tracers, sorted_tracers, i) ==
  IF i > Len(sorted_tracers) \/ L.err # NoError THEN L
  ELSE tracers_to_jaxpr_loop(S, tracers_to_jaxpr_step(S, L, in_tracers, sorted_tracers[i]),
                             in_tracers, sorted_tracers, i + 1)

\* tracers_to_jaxpr with the variables of the free variables after the
\* variables of the declared inputs.
tracers_to_jaxpr_inputs_first(S, in_tracers, out_tracers) ==
  Only({Only({
    IF L.err # NoError THEN Raise(S, L.err)
    ELSE Only({Only({
      Ret(Called(S, "tracers_to_jaxpr", NoTrace,
                 [in_tracers |-> in_tracers, out_tracers |-> out_tracers, out |-> out]), out) :
      out \in {[jaxpr |-> Jaxpr([i \in 1..Len(L.consts) |-> L.consts[i][1]],
                                r0.out \o [i \in 1..Len(L.env) |-> L.env[i][1]],
                                r1.out, L.eqns),
                consts |-> [i \in 1..Len(L.consts) |-> L.consts[i][2]],
                env |-> [i \in 1..Len(L.env) |-> L.env[i][2]]]}}) :
      r1 \in {MapGetvar(L, out_tracers, <<>>)}}) :
    L \in {tracers_to_jaxpr_loop(S, r0.S, in_tracers, toposort(S, out_tracers), 1)}}) :
    r0 \in {MapGetvar(EmptyLoop, in_tracers, <<>>)}})

\* tracers_to_jaxpr: returns [jaxpr, consts, env] (const_vals and env_vals).
tracers_to_jaxpr(S, in_tracers, out_tracers) ==
  Only({Only({
    IF L.err # NoError THEN Raise(S, L.err)
    ELSE Only({Only({
      Ret(Called(S, "tracers_to_jaxpr", NoTrace,
                 [in_tracers |-> in_tracers, out_tracers |-> out_tracers, out |-> out]), out) :
      out \in {[jaxpr |-> Jaxpr([i \in 1..Len(L.consts) |-> L.consts[i][1]],
                                [i \in 1..Len(L.env) |-> L.env[i][1]] \o r0.out,
                                r1.out, L.eqns),
                consts |-> [i \in 1..Len(L.consts) |-> L.consts[i][2]],
                env |-> [i \in 1..Len(L.env) |-> L.env[i][2]]]}}) :
      r1 \in {MapGetvar(L, out_tracers, <<>>)}}) :
    L \in {tracers_to_jaxpr_loop(S, r0.S, in_tracers, toposort(S, out_tracers), 1)}}) :
    r0 \in {MapGetvar(EmptyLoop, in_tracers, <<>>)}})

\* convert_constvars_jaxpr with the constant-variables after the inputs.
convert_constvars_jaxpr_appending(jaxpr) ==
  Jaxpr(<<>>, jaxpr.invars \o jaxpr.constvars, jaxpr.outvars, jaxpr.eqns)

\* convert_constvars_jaxpr
convert_constvars_jaxpr(jaxpr) ==
  Jaxpr(<<>>, jaxpr.constvars \o jaxpr.invars, jaxpr.outvars, jaxpr.eqns)

\* @cache() on convert_constvars_jaxpr: the cache holds the Program object
\* the call returned, under the argument object. An entry keeps the lists the
\* object was made with and the lists it has now. The callers pass a Program
\* they have just linearized, so every call makes an entry.
Cached(S, jaxpr, lifted) ==
  [S EXCEPT !.cache = Append(@, [key |-> jaxpr, made |-> lifted, held |-> lifted])]

\* lifted.invars = invars, on the Program object of the newest cache entry.
SetInvars(S, invars) == [S EXCEPT !.cache[Len(S.cache)].held.invars = invars]

\* ------------------------------------------------------------- evaluation

\* read of eval_jaxpr
read(env, v) == IF v.k = "Literal" THEN v.val ELSE env[v]

\* map(write, vs, vals) of eval_jaxpr
write_all(env, vs, vals) ==
  [a \in DOMAIN env \cup {vs[i] : i \in 1..Len(vs)} |->
     IF \E i \in 1..Len(vs) : vs[i] = a
     THEN vals[CHOOSE i \in 1..Len(vs) : vs[i] = a /\ \A j \in (i + 1)..Len(vs) : vs[j] # a]
     ELSE env[a]]

\* The loop of eval_jaxpr over jaxpr.eqns, from equation i.
RECURSIVE eval_jaxpr_loop(_, _, _, _)
eval_jaxpr_loop(S, env, eqns, i) ==
  IF Failed(S) \/ i > Len(eqns) THEN Ret(S, env)
  ELSE LET eqn == eqns[i]
           defined == \A j \in 1..Len(eqn.invars) :
                        eqn.invars[j].k = "Literal" \/ eqn.invars[j] \in DOMAIN env
       IN IF ~defined THEN Raise(S, "KeyError")
          ELSE Only({
            IF Failed(r.S) THEN Raise(r.S, r.S.err)
            ELSE IF multiple_results(eqn.primitive) /\ Len(eqn.outvars) # Len(r.out)
            THEN Raise(r.S, "AssertionError")
            ELSE eval_jaxpr_loop(r.S,
                   IF multiple_results(eqn.primitive) THEN write_all(env, eqn.outvars, r.out)
                   ELSE write_all(env, <<eqn.outvars[1]>>, <<r.out[1]>>),
                   eqns, i + 1) :
            r \in {bind(S, eqn.primitive,
                        [j \in 1..Len(eqn.invars) |-> read(env, eqn.invars[j])])}})

\* core.eval_jaxpr: returns the values of jaxpr.outvars.
eval_jaxpr(S, jaxpr, consts, args) ==
  IF Len(jaxpr.constvars) # Len(consts) \/ Len(jaxpr.invars) # Len(args)
  THEN Raise(S, "AssertionError")
  ELSE Only({
    IF Failed(r.S) THEN Raise(r.S, r.S.err)
    ELSE IF \E j \in 1..Len(jaxpr.outvars) :
              jaxpr.outvars[j].k # "Literal" /\ jaxpr.outvars[j] \notin DOMAIN r.out
    THEN Raise(r.S, "KeyError")
    ELSE Ret(r.S, [j \in 1..Len(jaxpr.outvars) |-> read(r.out, jaxpr.outvars[j])]) :
    r \in {eval_jaxpr_loop(S,
             write_all(write_all((unitvar :> unit), jaxpr.constvars, consts),
                       jaxpr.invars, args),
             jaxpr.eqns, 1)}})

\* core.jaxpr_as_fun(typed_jaxpr), a callable.
jaxpr_as_fun(typed_jaxpr) == [kind |-> "jaxpr_as_fun", typed_jaxpr |-> typed_jaxpr,
                              unknowns |-> <<>>, instantiate |-> <<>>]

\* ------------------------------------------------------------- layer groups

\* new_master, up to the yield: a new group object is pushed; returns its id.
new_master_enter(S, trace_type, bottom) ==
  LET level == next_level(S, bottom)
      m == Len(S.masters) + 1
      S1 == [S EXCEPT !.masters = Append(@, MasterTrace(level, trace_type))]
  IN Ret(IF bottom THEN [S1 EXCEPT !.downward = Append(@, m)]
         ELSE [S1 EXCEPT !.upward = Append(@, m)], m)

\* TraceStack.pop removing the oldest group of the list, not the newest.
pop_oldest(S, bottom) ==
  IF bottom THEN [S EXCEPT !.downward = SubSeq(@, 2, Len(@))]
  ELSE [S EXCEPT !.upward = SubSeq(@, 2, Len(@))]

\* TraceStack.pop
pop(S, bottom) ==
  IF bottom THEN [S EXCEPT !.downward = SubSeq(@, 1, Len(@) - 1)]
  ELSE [S EXCEPT !.upward = SubSeq(@, 1, Len(@) - 1)]

\* The tracer objects a tracer object keeps alive: its constant, the value
\* its recipe captured, the inputs of its equation recipe.
StrongRefs(S, t) ==
  LET T == S.heap[t]
  IN (IF IsTracer(T.pval.const) THEN {T.pval.const.id} ELSE {})
     \cup (IF T.recipe.k \in {"FreeVar", "ConstVar"} /\ IsTracer(T.recipe.val)
           THEN {T.recipe.val.id} ELSE {})
     \cup parents(S, t)

RECURSIVE Alive(_, _)
Alive(S, ts) ==
  LET more == ts \cup UNION {StrongRefs(S, t) : t \in ts}
  IN IF more = ts THEN ts ELSE Alive(S, more)

\* ref(master)() is not None: a tracer reachable from the references the
\* caller still holds (roots) keeps group m alive.
MasterAlive(S, m, roots) == \E t \in Alive(S, roots) : S.heap[t].trace.m = m

\* new_master without its leak check.
new_master_exit_unchecked(S, bottom, m, roots) == pop(S, bottom)

\* new_master, from the finally on: the group is popped, also when the body
\* raised, and then the leak check runs.
new_master_exit(S, bottom, m, roots) ==
  LET S1 == pop(S, bottom)
  IN IF Failed(S) THEN S1
     ELSE IF S.check_leaks /\ MasterAlive(S, m, roots) THEN [S1 EXCEPT !.err = "Leaked trace"]
     ELSE S1

\* new_sublevel, up to the yield.
new_sublevel_enter(S) == [S EXCEPT !.substack = Append(@, Len(@))]

\* new_sublevel, from the finally on: the sublevel is popped, also when the
\* body raised; with check_leaks the check then takes ref(sublevel) of an int
\* subclass, which Python refuses with a TypeError.
new_sublevel_exit(S) ==
  LET S1 == [S EXCEPT !.substack = SubSeq(@, 1, Len(@) - 1)]
  IN IF ~Failed(S) /\ S.check_leaks THEN [S1 EXCEPT !.err = "TypeError"] ELSE S1

\* ------------------------------------------------------------- tracing

\* The instantiate argument: one bool for all outputs, or a list of bools.
InstantiateAll(b) == [is_bool |-> TRUE, b |-> b, list |-> <<>>]
InstantiateList(list) == [is_bool |-> FALSE, b |-> FALSE, list |-> list]

\* instantiate_const_at taking every flag as set.
instantiate_const_at_always(S, trace, instantiate, tracer) ==
  Only({IF Failed(r.S) THEN r ELSE instantiate_const(r.S, trace, r.out) :
          r \in {full_raise(S, trace, tracer)}})

\* instantiate_const_at
instantiate_const_at(S, trace, instantiate, tracer) ==
  IF instantiate
  THEN Only({IF Failed(r.S) THEN r ELSE instantiate_const(r.S, trace, r.out) :
               r \in {full_raise(S, trace, tracer)}})
  ELSE Ret(S, tracer)

\* map(trace.new_arg, pvals)
RECURSIVE MapNewArg(_, _, _, _)
MapNewArg(S, trace, pvals, acc) ==
  IF Failed(S) \/ Len(acc) = Len(pvals) THEN Ret(S, acc)
  ELSE Only({MapNewArg(r.S, trace, pvals, Append(acc, r.out)) :
               r \in {new_arg(S, trace, pvals[Len(acc) + 1])}})

\* map(partial(instantiate_const_at, trace), instantiate, out_tracers)
RECURSIVE MapInstantiateAt(_, _, _, _, _)
MapInstantiateAt(S, trace, instantiate, ts, acc) ==
  IF Failed(S) \/ Len(acc) = Len(ts) THEN Ret(S, acc)
  ELSE Only({MapInstantiateAt(r.S, trace, instantiate, ts, Append(acc, r.out)) :
               r \in {instantiate_const_at(S, trace, instantiate[Len(acc) + 1],
                                           ts[Len(acc) + 1])}})

\* f(*args) for a callable f.
RECURSIVE call_wrapped(_, _, _)

\* trace_to_subjaxpr: returns [jaxpr, out_pvals, consts, env].
trace_to_subjaxpr(S, fun, master, instantiate, pvals) ==
  LET trace == Trace(S, master, cur_sublevel(S))
  IN Only({
    IF Failed(in_tracers.S) THEN Raise(in_tracers.S, in_tracers.S.err)
    ELSE Only({
      IF Failed(ans.S) THEN Raise(ans.S, ans.S.err)
      ELSE IF ~instantiate.is_bool /\ Len(instantiate.list) # Len(ans.out)
      THEN Raise(ans.S, "AssertionError")
      ELSE Only({
        IF Failed(raised.S) THEN Raise(raised.S, raised.S.err)
        ELSE Only({
          IF Failed(out_tracers.S) THEN Raise(out_tracers.S, out_tracers.S.err)
          ELSE Only({
            IF Failed(r.S) THEN Raise(r.S, r.S.err)
            ELSE Ret(r.S, [jaxpr |-> r.out.jaxpr,
                           out_pvals |-> [i \in 1..Len(out_tracers.out) |->
                                            r.S.heap[out_tracers.out[i].id].pval],
                           consts |-> r.out.consts, env |-> r.out.env]) :
            r \in {tracers_to_jaxpr(out_tracers.S, in_tracers.out, out_tracers.out)}}) :
          out_tracers \in {MapInstantiateAt(raised.S, trace,
                             IF instantiate.is_bool
                             THEN [i \in 1..Len(ans.out) |-> instantiate.b]
                             ELSE instantiate.list,
                             raised.out, <<>>)}}) :
        raised \in {MapRaise(ans.S, trace,
                             [i \in 1..Len(ans.out) |-> full_lower(ans.S, ans.out[i])], <<>>)}}) :
      ans \in {call_wrapped(in_tracers.S, fun, in_tracers.out)}}) :
    in_tracers \in {MapNewArg(S, trace, pvals, <<>>)}})

\* trace_to_jaxpr: returns [jaxpr, out_pvals, consts]. The body holds no
\* reference to a tracer when the scope of the group exits.
trace_to_jaxpr(S, fun, pvals, instantiate, stage_out_calls, bottom) ==
  Only({Only({Only({
    IF Failed(S3) THEN Raise(S3, S3.err)
    ELSE Ret(S3, [jaxpr |-> r.out.jaxpr, out_pvals |-> r.out.out_pvals,
                  consts |-> r.out.consts]) :
    S3 \in {new_master_exit(IF ~Failed(r.S) /\ Len(r.out.env) # 0
                            THEN [r.S EXCEPT !.err = "AssertionError"] ELSE r.S,
                            bottom, master.out, {})}}) :
    r \in {trace_to_subjaxpr(master.S, fun, master.out, instantiate, pvals)}}) :
    master \in {new_master_enter(S, IF stage_out_calls THEN "StagingJaxprTrace"
                                    ELSE "JaxprTrace", bottom)}})

\* The closure fun of partial_eval_jaxpr, a callable.
partial_eval_jaxpr_fun(typed_jaxpr, unknowns, instantiate) ==
  [kind |-> "partial_eval_jaxpr.fun", typed_jaxpr |-> typed_jaxpr,
   unknowns |-> unknowns, instantiate |-> instantiate]

\* fun(*vals) of partial_eval_jaxpr: appends to cell.
partial_eval_jaxpr_fun_call(S, fun, vals) ==
  LET jaxpr == fun.typed_jaxpr
      pvals == [i \in 1..Len(vals) |->
                  IF fun.unknowns[i] THEN PartialVal(jaxpr.in_avals[i], unit)
                  ELSE PartialVal(None, vals[i])]
  IN IF Len(vals) # Len(jaxpr.in_avals) \/ Len(vals) # Len(fun.unknowns)
     THEN Raise(S, "AssertionError")
     ELSE Only({
       IF Failed(r.S) THEN Raise(r.S, r.S.err)
       ELSE LET out_pvs_2 == [i \in 1..Len(r.out.out_pvals) |-> r.out.out_pvals[i].pv]
                out_consts_2 == [i \in 1..Len(r.out.out_pvals) |-> r.out.out_pvals[i].const]
            IN Ret([r.S EXCEPT !.cell = Append(@, [out_pvs_2 |-> out_pvs_2,
                                                   jaxpr_2 |-> r.out.jaxpr,
                                                   num_res |-> Len(r.out.consts)])],
                   out_consts_2 \o r.out.consts) :
       r \in {trace_to_jaxpr(S, jaxpr_as_fun(jaxpr), pvals, InstantiateList(fun.instantiate),
                             FALSE, FALSE)}})

\* ------------------------------------------------------------- calls

\* core.call_p, the call primitive; its bind is call_bind and its impl is
\* call_impl. It has no rule in call_partial_eval_rules and is no map
\* primitive.
call_p == "call"

\* A transformation_with_aux wrapper stores its aux output when the wrapped
\* function returns, and the maker of the wrapper reads it afterwards; the
\* wrappers nest, so the stores are read in the reverse order of the writes.
StoreAux(S, aux) == [S EXCEPT !.aux = Append(@, aux)]
ReadAux(S) == Ret([S EXCEPT !.aux = SubSeq(@, 1, Len(@) - 1)], S.aux[Len(S.aux)])

\* map(trace.new_instantiated_const, consts)
RECURSIVE MapNewInstantiatedConst(_, _, _, _)
MapNewInstantiatedConst(S, trace, consts, acc) ==
  IF Failed(S) \/ Len(acc) = Len(consts) THEN Ret(S, acc)
  ELSE Only({MapNewInstantiatedConst(r.S, trace, consts, Append(acc, r.out)) :
               r \in {new_instantiated_const(S, trace, consts[Len(acc) + 1])}})

\* zip(out_pvs, out_pv_consts) as partial values.
ZipPartialVals(out_pvs, out_pv_consts) ==
  [i \in 1..(IF Len(out_pvs) < Len(out_pv_consts) THEN Len(out_pvs) ELSE Len(out_pv_consts)) |->
     PartialVal(out_pvs[i], out_pv_consts[i])]

\* it.chain(tracers, const_tracers, env_tracers): the arguments first.
chain_arguments_first(const_tracers, env_tracers, tracers) ==
  tracers \o const_tracers \o env_tracers

\* it.chain(const_tracers, env_tracers, tracers)
chain(const_tracers, env_tracers, tracers) == const_tracers \o env_tracers \o tracers

\* The end of process_call and of todo: the out_tracers are made from the
\* zipped partial values and get the recipe of a new call equation over
\* it.chain(const_tracers, env_tracers, tracers), whose call_jaxpr is the
\* nested program with its constant-variables converted to inputs. The
\* record of the call keeps the nested program as it was traced and the
\* three groups of inputs.
call_equation(S, trace, call_primitive, jaxpr, const_tracers, env_tracers, tracers, out_pvs, out_pv_consts) ==
  Only({
    IF Failed(out_tracers.S) THEN Raise(out_tracers.S, out_tracers.S.err)
    ELSE Only({Ret(Called(SetRecipe(eqn.S, out_tracers.out, eqn.out), "call_equation", trace,
                          [jaxpr |-> jaxpr, const_tracers |-> const_tracers,
                           env_tracers |-> env_tracers, tracers |-> tracers]),
                   out_tracers.out) :
                 eqn \in {new_eqn_recipe(Cached(out_tracers.S, jaxpr,
                                                convert_constvars_jaxpr(jaxpr)),
                                         chain(const_tracers, env_tracers, tracers),
                                         out_tracers.out, call_primitive,
                                         [call_jaxpr |-> convert_constvars_jaxpr(jaxpr)])}}) :
    out_tracers \in {NewOutTracers(S, trace, ZipPartialVals(out_pvs, out_pv_consts), <<>>)}})

\* The closure todo of post_process_call.
Todo(master, call_primitive, jaxpr, env, out_pvs) ==
  [kind |-> "todo", master |-> master, primitive |-> call_primitive,
   jaxpr |-> jaxpr, env |-> env, out_pvs |-> out_pvs]

\* todo(x)
todo_call(S, todo, x) ==
  LET n == Len(todo.jaxpr.outvars)
      out_pv_consts == SubSeq(x, 1, n)
      consts == SubSeq(x, n + 1, Len(x))
      trace == Trace(S, todo.master, cur_sublevel(S))
  IN Only({
    IF Failed(const_tracers.S) THEN Raise(const_tracers.S, const_tracers.S.err)
    ELSE Only({
      IF Failed(env_tracers.S) THEN Raise(env_tracers.S, env_tracers.S.err)
      ELSE call_equation(env_tracers.S, trace, todo.primitive, todo.jaxpr,
                         const_tracers.out, env_tracers.out, <<>>,
                         todo.out_pvs, out_pv_consts) :
      env_tracers \in {MapRaise(const_tracers.S, trace, todo.env, <<>>)}}) :
    const_tracers \in {MapNewInstantiatedConst(Called(S, "todo", trace, x),
                                               trace, consts, <<>>)}})

\* JaxprTrace.post_process_call: returns [out, todo].
post_process_call(S, trace, call_primitive, out_tracers) ==
  Only({
    IF Failed(r.S) THEN Raise(r.S, r.S.err)
    ELSE Ret(r.S, [out |-> [i \in 1..Len(out_tracers) |->
                              r.S.heap[out_tracers[i].id].pval.const] \o r.out.consts,
                   todo |-> Todo(trace.m, call_primitive, r.out.jaxpr, r.out.env,
                                 [i \in 1..Len(out_tracers) |->
                                    r.S.heap[out_tracers[i].id].pval.pv])]) :
    r \in {tracers_to_jaxpr(Called(S, "post_process_call", trace, out_tracers),
                            <<>>, out_tracers)}})

\* apply_todos taking the todos from the front of the list.
RECURSIVE apply_todos_from_front(_, _, _)
apply_todos_from_front(S, todos, outs) ==
  IF Failed(S) THEN Raise(S, S.err)
  ELSE IF todos = <<>> THEN Ret(S, outs)
  ELSE Only({
    IF Failed(r.S) THEN Raise(r.S, r.S.err)
    ELSE apply_todos_from_front(Called(r.S, "todo_returned",
                                       Trace(S, todos[1].master, cur_sublevel(S)), r.out),
                                SubSeq(todos, 2, Len(todos)),
                                [i \in 1..Len(r.out) |-> full_lower(r.S, r.out[i])]) :
    r \in {todo_call(S, todos[1], outs)}})

\* apply_todos handing the outputs of a todo to the next one as they are.
RECURSIVE apply_todos_unlowered(_, _, _)
apply_todos_unlowered(S, todos, outs) ==
  IF Failed(S) THEN Raise(S, S.err)
  ELSE IF todos = <<>> THEN Ret(S, outs)
  ELSE Only({
    IF Failed(r.S) THEN Raise(r.S, r.S.err)
    ELSE apply_todos_unlowered(Called(r.S, "todo_returned",
                                      Trace(S, todos[Len(todos)].master, cur_sublevel(S)),
                                      r.out),
                               SubSeq(todos, 1, Len(todos) - 1), r.out) :
    r \in {todo_call(S, todos[Len(todos)], outs)}})

\* apply_todos: the list is popped from its end.
RECURSIVE apply_todos(_, _, _)
apply_todos(S, todos, outs) ==
  IF Failed(S) THEN Raise(S, S.err)
  ELSE IF todos = <<>> THEN Ret(S, outs)
  ELSE Only({
    IF Failed(r.S) THEN Raise(r.S, r.S.err)
    ELSE apply_todos(Called(r.S, "todo_returned",
                            Trace(S, todos[Len(todos)].master, cur_sublevel(S)), r.out),
                     SubSeq(todos, 1, Len(todos) - 1),
                     [i \in 1..Len(r.out) |-> full_lower(r.S, r.out[i])]) :
    r \in {todo_call(S, todos[Len(todos)], outs)}})

\* The wrapper process_env_traces(f, primitive, level, params_tuple), a
\* callable.
process_env_traces(f, primitive, level) ==
  [kind |-> "process_env_traces", fun |-> f, primitive |-> primitive, level |-> level]

\* The loop of process_env_traces leaving after its first iteration.
process_env_traces_loop_once(S, primitive, level, outs, todo) ==
  IF Failed(S) THEN Raise(S, S.err)
  ELSE Only({
    IF i = 0 THEN Ret(S, [outs |-> outs, todo |-> todo])
    ELSE IF TraceOf(S, outs[i]).level <= level THEN Ret(S, [outs |-> outs, todo |-> todo])
    ELSE Only({Only({
      IF Failed(raised.S) THEN Raise(raised.S, raised.S.err)
      ELSE Only({
        IF Failed(r.S) THEN Raise(r.S, r.S.err)
        ELSE Ret(r.S, [outs |-> r.out.out, todo |-> Append(todo, r.out.todo)]) :
        r \in {post_process_call(raised.S, trace, primitive, raised.out)}}) :
      raised \in {MapRaise(S, trace, outs, <<>>)}}) :
      trace \in {Trace(S, TraceOf(S, outs[i]).m, cur_sublevel(S))}}) :
    i \in {MaxLevelTracer(S, outs, 1, 0)}})

\* The loop of process_env_traces on outs: returns [outs, todo].
RECURSIVE process_env_traces_loop(_, _, _, _, _)
process_env_traces_loop(S, primitive, level, outs, todo) ==
  IF Failed(S) THEN Raise(S, S.err)
  ELSE Only({
    IF i = 0 THEN Ret(S, [outs |-> outs, todo |-> todo])
    ELSE IF TraceOf(S, outs[i]).level <= level THEN Ret(S, [outs |-> outs, todo |-> todo])
    ELSE Only({Only({
      IF Failed(raised.S) THEN Raise(raised.S, raised.S.err)
      ELSE Only({
        IF Failed(r.S) THEN Raise(r.S, r.S.err)
        ELSE process_env_traces_loop(r.S, primitive, level, r.out.out,
                                     Append(todo, r.out.todo)) :
        r \in {post_process_call(raised.S, trace, primitive, raised.out)}}) :
      raised \in {MapRaise(S, trace, outs, <<>>)}}) :
      trace \in {Trace(S, TraceOf(S, outs[i]).m, cur_sublevel(S))}}) :
    i \in {MaxLevelTracer(S, outs, 1, 0)}})

\* The wrapped function of process_env_traces called with args: the aux
\* output is the tuple of the todos.
process_env_traces_call(S, fun, args) ==
  Only({
    IF Failed(outs.S) THEN Raise(outs.S, outs.S.err)
    ELSE Only({
      IF Failed(r.S) THEN Raise(r.S, r.S.err)
      ELSE Ret(StoreAux(Called(r.S, "process_env_traces", NoTrace,
                               [level |-> fun.level, outs |-> r.out.outs, todo |-> r.out.todo]),
                        r.out.todo), r.out.outs) :
      r \in {process_env_traces_loop(outs.S, fun.primitive, fun.level, outs.out, <<>>)}}) :
    outs \in {call_wrapped(S, fun.fun, args)}})

\* partial_eval(f, trace, pvs): the wrapper partial_eval_wrapper of
\* trace_to_subjaxpr(f, trace.master, False), a callable.
partial_eval(f, trace, pvs) ==
  [kind |-> "partial_eval_wrapper", fun |-> f, master |-> trace.m, avals |-> pvs]

\* The wrapped function of partial_eval_wrapper called with consts: the aux
\* output is (out_pvs, jaxpr, env).
partial_eval_wrapper_call(S, fun, consts) ==
  Only({
    IF Failed(r.S) THEN Raise(r.S, r.S.err)
    ELSE Ret(StoreAux(r.S, [out_pvs |-> [i \in 1..Len(r.out.out_pvals) |->
                                          r.out.out_pvals[i].pv],
                            jaxpr |-> r.out.jaxpr, env |-> r.out.env]),
             [i \in 1..Len(r.out.out_pvals) |-> r.out.out_pvals[i].const]
               \o r.out.consts) :
    r \in {trace_to_subjaxpr(S, fun.fun, fun.master, InstantiateAll(FALSE),
                             ZipPartialVals(fun.avals, consts))}})

RECURSIVE call_bind(_, _, _, _)

\* JaxprTrace.instantiate_const_abstracted
instantiate_const_abstracted(S, trace, tracer) ==
  LET pval == S.heap[tracer.id].pval
  IN IF IsAbstractValue(pval.pv) THEN Ret(S, tracer)
     ELSE IF pval.pv = None
     THEN JaxprTracer(S, trace, PartialVal(get_aval(S, pval.const), unit),
                      ConstVar(pval.const))
     ELSE Raise(S, "TypeError")

RECURSIVE MapInstantiateAbstracted(_, _, _, _)
MapInstantiateAbstracted(S, trace, xs, acc) ==
  IF Failed(S) \/ Len(acc) = Len(xs) THEN Ret(S, acc)
  ELSE Only({MapInstantiateAbstracted(r.S, trace, xs, Append(acc, r.out)) :
               r \in {instantiate_const_abstracted(S, trace, xs[Len(acc) + 1])}})

\* process_call after call_primitive.bind(fun, *in_consts) returned
\* out_flat: aux() is read, and the call equation is recorded over the
\* residual constants, the free variables and the arguments.
process_call_record(S, trace, call_primitive, tracers, out_flat) ==
  Only({Only({
    IF Failed(env_tracers.S) THEN Raise(env_tracers.S, env_tracers.S.err)
    ELSE Only({Only({
      IF Failed(const_tracers.S) THEN Raise(const_tracers.S, const_tracers.S.err)
      ELSE call_equation(const_tracers.S, trace, call_primitive, aux.out.jaxpr,
                         const_tracers.out, env_tracers.out, tracers,
                         aux.out.out_pvs, SubSeq(out_flat, 1, n)) :
      const_tracers \in {MapNewInstantiatedConst(env_tracers.S, trace,
                                                 SubSeq(out_flat, n + 1, Len(out_flat)),
                                                 <<>>)}}) :
      n \in {Len(out_flat) - Len(aux.out.jaxpr.constvars)}}) :
    env_tracers \in {MapRaise(aux.S, trace, aux.out.env, <<>>)}}) :
    aux \in {ReadAux(S)}})

\* JaxprTrace.process_call for a call primitive without a partial-evaluation
\* rule of its own.
process_call(S, trace, call_primitive, f, tracers) ==
  Only({
    IF Failed(ts.S) THEN Raise(ts.S, ts.S.err)
    ELSE Only({
      IF Failed(out_flat.S) THEN Raise(out_flat.S, out_flat.S.err)
      ELSE process_call_record(out_flat.S, trace, call_primitive, ts.out, out_flat.out) :
      out_flat \in {call_bind(ts.S, call_primitive,
                              partial_eval(f, trace,
                                [i \in 1..Len(ts.out) |-> ts.S.heap[ts.out[i].id].pval.pv]),
                              [i \in 1..Len(ts.out) |-> ts.S.heap[ts.out[i].id].pval.const])}}) :
    ts \in {IF S.masters[trace.m].trace_type = "StagingJaxprTrace"
            THEN MapInstantiateAbstracted(Called(S, "process_call", trace, tracers),
                                          trace, tracers, <<>>)
            ELSE Ret(Called(S, "process_call", trace, tracers), tracers)}})

\* core.call_impl under the new_sublevel of call_bind.
call_impl(S, f, args) ==
  Only({Only({IF Failed(S2) THEN Raise(S2, S2.err) ELSE Ret(S2, outs.out) :
                S2 \in {new_sublevel_exit(outs.S)}}) :
          outs \in {call_wrapped(new_sublevel_enter(Called(S, "call_impl", NoTrace, args)),
                                 f, args)}})

\* call_bind up to the return of primitive.impl or top_trace.process_call:
\* the outs, fully lowered.
call_bind_outs(S, primitive, f, args, top_trace) ==
  IF top_trace.m = 0
  THEN call_impl(S, process_env_traces(f, primitive, next_level(S, TRUE)), args)
  ELSE Only({
    IF Failed(tracers.S) THEN Raise(tracers.S, tracers.S.err)
    ELSE Only({
      IF Failed(outs.S) THEN Raise(outs.S, outs.S.err)
      ELSE Ret(outs.S, [i \in 1..Len(outs.out) |-> full_lower(outs.S, outs.out[i])]) :
      outs \in {process_call(tracers.S, top_trace, primitive,
                             process_env_traces(f, primitive, top_trace.level),
                             tracers.out)}}) :
    tracers \in {MapRaise(S, top_trace, args, <<>>)}})

\* core.call_bind
call_bind(S, primitive, f, args) ==
  Only({Only({
    IF Failed(outs.S) THEN Raise(outs.S, outs.S.err)
    ELSE Only({
      Only({IF Failed(r.S) THEN Raise(r.S, r.S.err)
            ELSE Ret(Called(r.S, "call_bind_returned", top_trace, r.out), r.out) :
              r \in {apply_todos(Called(env_trace_todo.S, "returned", top_trace, outs.out),
                                 env_trace_todo.out, outs.out)}}) :
      env_trace_todo \in {ReadAux(outs.S)}}) :
    outs \in {call_bind_outs(Called(S, "call_bind", top_trace, args), primitive, f, args,
                             top_trace)}}) :
    top_trace \in {find_top_trace(S, args)}})

call_wrapped(S, fun, args) ==
  IF fun.kind = "jaxpr_as_fun"
  THEN eval_jaxpr(S, fun.typed_jaxpr.jaxpr, fun.typed_jaxpr.literals, args)
  ELSE IF fun.kind = "process_env_traces" THEN process_env_traces_call(S, fun, args)
  ELSE IF fun.kind = "partial_eval_wrapper" THEN partial_eval_wrapper_call(S, fun, args)
  ELSE partial_eval_jaxpr_fun_call(S, fun, args)

\* _split_aval with the two sides exchanged.
_split_aval_exchanged(unknown, aval) ==
  IF unknown THEN <<aval, abstract_unit>> ELSE <<abstract_unit, aval>>

\* _split_aval
_split_aval(unknown, aval) ==
  IF unknown THEN <<abstract_unit, aval>> ELSE <<aval, abstract_unit>>

\* partial_eval_jaxpr after its trace_to_jaxpr returned r: the two typed
\* programs and the mask of the unknown outputs.
partial_eval_jaxpr_split(S, jaxpr, unknowns, r) ==
  LET n == Len(jaxpr.in_avals)
      jaxpr_1 == r.out.jaxpr
      c == r.S.cell[1]
      num_res == c.num_res
      lifted == convert_constvars_jaxpr(c.jaxpr_2)
      jaxpr_2 == [lifted EXCEPT !.invars = SubSeq(@, num_res + 1, Len(@)) \o SubSeq(@, 1, num_res)]
      uk_out == [i \in 1..Len(c.out_pvs_2) |-> c.out_pvs_2[i] # None]
      in_split == [i \in 1..n |-> _split_aval(unknowns[i], jaxpr.in_avals[i])]
      out_split == [i \in 1..Len(uk_out) |-> _split_aval(uk_out[i], jaxpr.out_avals[i])]
      out_pvs == [i \in 1..Len(r.out.out_pvals) |-> r.out.out_pvals[i].pv]
      res_avals == SubSeq(out_pvs, Len(jaxpr.out_avals) + 1, Len(out_pvs))
      in_avals_1 == [i \in 1..n |-> in_split[i][1]]
      in_avals_2 == [i \in 1..n |-> in_split[i][2]] \o res_avals
      out_avals_1 == [i \in 1..Len(uk_out) |-> out_split[i][1]] \o res_avals
      out_avals_2 == [i \in 1..Len(uk_out) |-> out_split[i][2]]
  IN IF Len(unknowns) # n THEN Raise(S, "AssertionError")
     ELSE IF Failed(r.S) THEN Raise(r.S, r.S.err)
     ELSE IF Len(r.S.cell) # 1 THEN Raise(r.S, "ValueError")
     ELSE IF Len(c.jaxpr_2.constvars) # num_res \/ Len(uk_out) # Len(jaxpr.out_avals)
             \/ Len(res_avals) # num_res
             \/ Len(r.out.consts) # Len(jaxpr_1.constvars) \/ Len(in_avals_1) # Len(jaxpr_1.invars)
             \/ Len(in_avals_2) # Len(jaxpr_2.invars)
     THEN Raise(r.S, "AssertionError")
     ELSE Ret(SetInvars(Cached(r.S, c.jaxpr_2, lifted), jaxpr_2.invars),
                   [typed_jaxpr_1 |-> TypedJaxpr(jaxpr_1, r.out.consts, in_avals_1, out_avals_1),
                    typed_jaxpr_2 |-> TypedJaxpr(jaxpr_2, <<>>, in_avals_2, out_avals_2),
                    uk_out |-> uk_out])

\* partial_eval_jaxpr whose closure takes the known inputs for the unknown
\* ones.
partial_eval_jaxpr_swapped(S, jaxpr, unknowns, instantiate) ==
  Only({partial_eval_jaxpr_split(S, jaxpr, unknowns, r) :
    r \in {trace_to_jaxpr([S EXCEPT !.cell = <<>>],
                          partial_eval_jaxpr_fun(jaxpr, [i \in 1..Len(unknowns) |-> ~unknowns[i]],
                                                 instantiate),
                          [i \in 1..Len(jaxpr.in_avals) |->
                             IF unknowns[i] THEN PartialVal(abstract_unit, unit)
                             ELSE PartialVal(jaxpr.in_avals[i], unit)],
                          InstantiateAll(TRUE), FALSE, FALSE)}})

\* partial_eval_jaxpr: returns [typed_jaxpr_1, typed_jaxpr_2, uk_out].
partial_eval_jaxpr(S, jaxpr, unknowns, instantiate) ==
  Only({partial_eval_jaxpr_split(S, jaxpr, unknowns, r) :
    r \in {trace_to_jaxpr([S EXCEPT !.cell = <<>>],
                          partial_eval_jaxpr_fun(jaxpr, unknowns, instantiate),
                          [i \in 1..Len(jaxpr.in_avals) |->
                             IF unknowns[i] THEN PartialVal(abstract_unit, unit)
                             ELSE PartialVal(jaxpr.in_avals[i], unit)],
                          InstantiateAll(TRUE), FALSE, FALSE)}})

\* ------------------------------------------------------------- dead code

\* The reverse walk of _dce_jaxpr without the update of needed_vars: only the
\* equations that define an output are kept.
RECURSIVE _dce_jaxpr_loop_shallow(_, _, _, _)
_dce_jaxpr_loop_shallow(eqns, i, needed_vars, new_eqns) ==
  IF i = 0 THEN new_eqns
  ELSE LET eqn == eqns[i]
       IN IF \E j \in 1..Len(eqn.outvars) : eqn.outvars[j] \in needed_vars
          THEN _dce_jaxpr_loop_shallow(eqns, i - 1, needed_vars, <<eqn>> \o new_eqns)
          ELSE _dce_jaxpr_loop_shallow(eqns, i - 1, needed_vars, new_eqns)

\* The reverse walk of _dce_jaxpr without the final reversal of new_eqns: the
\* kept equations come out in the order the walk visited them.
RECURSIVE _dce_jaxpr_loop_unreversed(_, _, _, _)
_dce_jaxpr_loop_unreversed(eqns, i, needed_vars, new_eqns) ==
  IF i = 0 THEN new_eqns
  ELSE LET eqn == eqns[i]
       IN IF \E j \in 1..Len(eqn.outvars) : eqn.outvars[j] \in needed_vars
          THEN _dce_jaxpr_loop_unreversed(eqns, i - 1,
                 needed_vars \cup {eqn.invars[j] : j \in {j \in 1..Len(eqn.invars) :
                                                           eqn.invars[j].k # "Literal"}},
                 new_eqns \o <<eqn>>)
          ELSE _dce_jaxpr_loop_unreversed(eqns, i - 1, needed_vars, new_eqns)

\* The reverse walk of _dce_jaxpr from equation i down: returns the kept
\* equations in program order.
RECURSIVE _dce_jaxpr_loop(_, _, _, _)
_dce_jaxpr_loop(eqns, i, needed_vars, new_eqns) ==
  IF i = 0 THEN new_eqns
  ELSE LET eqn == eqns[i]
       IN IF \E j \in 1..Len(eqn.outvars) : eqn.outvars[j] \in needed_vars
          THEN _dce_jaxpr_loop(eqns, i - 1,
                 needed_vars \cup {eqn.invars[j] : j \in {j \in 1..Len(eqn.invars) :
                                                           eqn.invars[j].k # "Literal"}},
                 <<eqn>> \o new_eqns)
          ELSE _dce_jaxpr_loop(eqns, i - 1, needed_vars, new_eqns)

\* _dce_jaxpr
\* _dce_jaxpr with the unselected outputs removed from the output list, not
\* replaced by unitvar.
_dce_jaxpr_dropping(typed_jaxpr, outputs) ==
  LET jaxpr == typed_jaxpr.jaxpr
      n == Len(jaxpr.outvars)
      kept == {i \in 1..n : outputs[i]}
      nth(k) == CHOOSE i \in kept : Cardinality({j \in kept : j <= i}) = k
      new_outvars == [k \in 1..Cardinality(kept) |-> jaxpr.outvars[nth(k)]]
      new_out_avals == [k \in 1..Cardinality(kept) |-> typed_jaxpr.out_avals[nth(k)]]
      needed_vars == {new_outvars[i] : i \in {i \in 1..Len(new_outvars) : new_outvars[i].k # "Literal"}}
      new_eqns == _dce_jaxpr_loop(jaxpr.eqns, Len(jaxpr.eqns), needed_vars, <<>>)
  IN TypedJaxpr(Jaxpr(jaxpr.constvars, jaxpr.invars, new_outvars, new_eqns),
                typed_jaxpr.literals, typed_jaxpr.in_avals, new_out_avals)

_dce_jaxpr(typed_jaxpr, outputs) ==
  LET jaxpr == typed_jaxpr.jaxpr
      n == Len(jaxpr.outvars)
      new_outvars == [i \in 1..n |-> IF outputs[i] THEN jaxpr.outvars[i] ELSE unitvar]
      new_out_avals == [i \in 1..n |-> IF outputs[i] THEN typed_jaxpr.out_avals[i]
                                       ELSE abstract_unit]
      needed_vars == {new_outvars[i] : i \in {i \in 1..n : new_outvars[i].k # "Literal"}}
      new_eqns == _dce_jaxpr_loop(jaxpr.eqns, Len(jaxpr.eqns), needed_vars, <<>>)
  IN TypedJaxpr(Jaxpr(jaxpr.constvars, jaxpr.invars, new_outvars, new_eqns),
                typed_jaxpr.literals, typed_jaxpr.in_avals, new_out_avals)

\* ------------------------------------------------------------- inputs

\* The longest program (in equations) the checks draw.
MaxEqns == 2

\* The raw values a caller passes: a scalar and an array.
ArgChoices == {<<Raw(TRUE, 2, 1), Raw(FALSE, 3, 2)>>}

\* An inlined scalar constant of a program.
One == Literal(Raw(TRUE, 1, 3))

InVars == <<Var(0), Var(1)>>

\* The variables a program body defines, in order, after the inputs.
RECURSIVE Defined(_)
Defined(eqns) ==
  IF eqns = <<>> THEN InVars
  ELSE Defined(SubSeq(eqns, 1, Len(eqns) - 1)) \o eqns[Len(eqns)].outvars

\* The last n elements of a sequence, as a set.
LastOf(seq, n) == {seq[i] : i \in {i \in 1..Len(seq) : i > Len(seq) - n}}

\* The equations that may follow a body: the first operand is one of the two
\* latest variables, the second the latest variable, the third latest or the
\* constant.
NextEqns(eqns) ==
  LET d == Defined(eqns)
      k == Len(d)
  IN {new_jaxpr_eqn(<<a, b>>,
                    IF multiple_results(p) THEN <<Var(k), Var(k + 1)>> ELSE <<Var(k)>>, p, "") :
        p \in Primitives, a \in LastOf(d, 2), b \in (LastOf(d, 3) \ LastOf(d, 2)) \cup {d[k], One}}

RECURSIVE Bodies(_)
Bodies(n) ==
  IF n = 0 THEN {<<>>}
  ELSE LET prev == Bodies(n - 1)
       IN prev \cup UNION {{Append(b, e) : e \in NextEqns(b)} : b \in {b \in prev : Len(b) = n - 1}}

\* The output lists of a body: one of its two latest variables, then the
\* constant or the latest variable.
OutVarChoices(eqns) ==
  LET d == Defined(eqns)
  IN {<<a, b>> : a \in LastOf(d, 2), b \in {One, d[Len(d)]}}

\* The abstract value a program gives an atom, from the abstract values of
\* its inputs.
RECURSIVE AvalIn(_, _, _)
AvalIn(eqns, in_avals, a) ==
  IF a.k = "Literal" THEN concrete_aval(a.val)
  ELSE IF a.k = "unitvar" THEN abstract_unit
  ELSE IF a.n < Len(InVars) THEN in_avals[a.n + 1]
  ELSE LET e == CHOOSE e \in 1..Len(eqns) : \E j \in 1..Len(eqns[e].outvars) : eqns[e].outvars[j] = a
       IN abstract_eval(eqns[e].primitive,
            [j \in 1..Len(eqns[e].invars) |-> AvalIn(eqns, in_avals, eqns[e].invars[j])])[1]

\* The typed program of a body and an output list, for arguments args.
TypedProgram(eqns, outvars, args) ==
  LET in_avals == [i \in 1..Len(args) |-> concrete_aval(args[i])]
  IN TypedJaxpr(Jaxpr(<<>>, InVars, outvars, eqns), <<>>, in_avals,
                [i \in 1..Len(outvars) |-> AvalIn(eqns, in_avals, outvars[i])])

Masks == {<<a, b>> : a \in BOOLEAN, b \in BOOLEAN}

\* ------------------------------------------------------------- state

VARIABLES
  pc,     \* the step of the run: "start", then the operation applied
  fn,     \* the typed program the run is about
  args,   \* the concrete arguments of the run
  res,    \* what the operations of the run returned
  st,     \* the engine state of a tracing session
  scopes, \* the open scopes of the session, outermost first, with their locals
  store,  \* the tracers the session saved in a list outside every scope
  last    \* the last operation of the session and what it returned

vars == <<pc, fn, args, res, st, scopes, store, last>>

\* The frame of the code outside every scope.
TopFrame == [kind |-> "top", m |-> 0, locals |-> {}]

\* No operation yet.
Idle == [op |-> "none", m |-> 0, trace |-> NoTrace, args |-> <<>>, err |-> NoError,
         out |-> <<>>, nheap |-> 0, calls |-> <<>>, primitive |-> "", outs |-> <<>>]

\* A session in which nothing happened.
NoSession ==
  /\ st = EmptyState
  /\ scopes = <<TopFrame>>
  /\ store = {}
  /\ last = Idle

NoResult == [op |-> "none"]

\* What calling the function directly on the arguments returns.
Direct == eval_jaxpr(EmptyState, fn.jaxpr, fn.literals, args)

InitPE ==
  /\ pc = "start"
  /\ \E b \in Bodies(MaxEqns), a \in ArgChoices :
       \E o \in OutVarChoices(b) :
         /\ fn = TypedProgram(b, o, a)
         /\ args = a
  /\ res = NoResult
  /\ NoSession

\* trace_to_jaxpr(jaxpr_as_fun(fn), pvals, instantiate) for inputs tagged by a
\* mask (TRUE: Unknown).
TraceToJaxpr ==
  /\ pc = "start"
  /\ \E unknowns \in Masks, instantiate \in BOOLEAN :
       \E r \in {trace_to_jaxpr(EmptyState, jaxpr_as_fun(fn),
                                [i \in 1..Len(args) |->
                                   IF unknowns[i] THEN PartialVal(fn.in_avals[i], unit)
                                   ELSE PartialVal(None, args[i])],
                                InstantiateAll(instantiate), FALSE, FALSE)} :
         res' = [op |-> "trace_to_jaxpr", unknowns |-> unknowns, instantiate |-> instantiate,
                 err |-> r.S.err, out |-> r.out]
  /\ pc' = "traced"
  /\ UNCHANGED <<fn, args, st, scopes, store, last>>

\* eval_jaxpr of the traced program on the returned constants and the same
\* arguments.
EvalTraced ==
  /\ pc = "traced"
  /\ res.err = NoError
  /\ \E r \in {eval_jaxpr(EmptyState, res.out.jaxpr, res.out.consts, args)} :
       res' = [res EXCEPT !.op = "eval_jaxpr", !.err = r.S.err] @@ [vals |-> r.out]
  /\ pc' = "replayed"
  /\ UNCHANGED <<fn, args, st, scopes, store, last>>

NextTrace == TraceToJaxpr \/ EvalTraced

SpecTrace == InitPE /\ [][NextTrace]_vars

\* ------------------------------------------------------------- splitting

\* partial_eval_jaxpr(fn, unknowns, instantiate) for a mask of unknown inputs
\* and a list of outputs to force Unknown.
PartialEvalJaxpr ==
  /\ pc = "start"
  /\ \E unknowns \in Masks, instantiate \in Masks :
       \E r \in {partial_eval_jaxpr(EmptyState, fn, unknowns, instantiate)} :
         res' = [op |-> "partial_eval_jaxpr", unknowns |-> unknowns,
                 instantiate |-> instantiate, err |-> r.S.err, out |-> r.out,
                 cache |-> r.S.cache]
  /\ pc' = "split"
  /\ UNCHANGED <<fn, args, st, scopes, store, last>>

\* Stage 1 runs on the known inputs (unit at the unknown positions); stage 2
\* runs on the unknown inputs (unit at the known positions) followed by the
\* residuals, the outputs of stage 1 after the program's own.
RunStages ==
  /\ pc = "split"
  /\ res.err = NoError
  /\ LET j1 == res.out.typed_jaxpr_1
         j2 == res.out.typed_jaxpr_2
         n == Len(fn.out_avals)
     IN \E r1 \in {eval_jaxpr(EmptyState, j1.jaxpr, j1.literals,
                     [i \in 1..Len(args) |-> IF res.unknowns[i] THEN unit ELSE args[i]])} :
          IF Failed(r1.S)
          THEN res' = [res EXCEPT !.op = "stages", !.err = r1.S.err]
                        @@ [vals1 |-> <<>>, vals2 |-> <<>>, residuals |-> <<>>]
          ELSE \E residuals \in {SubSeq(r1.out, n + 1, Len(r1.out))} :
                 \E r2 \in {eval_jaxpr(r1.S, j2.jaxpr, j2.literals,
                              [i \in 1..Len(args) |->
                                 IF res.unknowns[i] THEN args[i] ELSE unit] \o residuals)} :
                   res' = [res EXCEPT !.op = "stages", !.err = r2.S.err]
                            @@ [vals1 |-> SubSeq(r1.out, 1, n), vals2 |-> r2.out,
                                residuals |-> residuals]
  /\ pc' = "staged"
  /\ UNCHANGED <<fn, args, st, scopes, store, last>>

NextSplit == PartialEvalJaxpr \/ RunStages

SpecSplit == InitPE /\ [][NextSplit]_vars

\* ------------------------------------------------------------- pruning

\* _dce_jaxpr(fn, outputs) for a mask of live outputs.
DceJaxpr ==
  /\ pc = "start"
  /\ \E outputs \in Masks :
       res' = [op |-> "_dce_jaxpr", outputs |-> outputs, err |-> NoError,
               out |-> _dce_jaxpr(fn, outputs)]
  /\ pc' = "pruned"
  /\ UNCHANGED <<fn, args, st, scopes, store, last>>

\* eval_jaxpr of the pruned program on the same constants and arguments.
EvalPruned ==
  /\ pc = "pruned"
  /\ \E r \in {eval_jaxpr(EmptyState, res.out.jaxpr, res.out.literals, args)} :
       res' = [res EXCEPT !.op = "eval_jaxpr", !.err = r.S.err] @@ [vals |-> r.out]
  /\ pc' = "evaluated"
  /\ UNCHANGED <<fn, args, st, scopes, store, last>>

NextDce == DceJaxpr \/ EvalPruned

SpecDce == InitPE /\ [][NextDce]_vars

\* ------------------------------------------------------------- examples

\* The single-result arithmetic primitives of the example functions.
ArithPrimitives == {"add", "sub", "mul"}

\* An inlined scalar constant of a program.
Two == Literal(Raw(TRUE, 2, 4))

\* The values of x and y: the scalars 5 and 7, and arrays.
ExampleX == {Raw(TRUE, 5, 1), Raw(FALSE, 5, 1)}
ExampleY == {Raw(TRUE, 7, 2), Raw(FALSE, 7, 2)}

\* The typed program of f(x, y) = x p y as make_jaxpr gives it for x, y.
Binary(p, x, y) ==
  TypedJaxpr(Jaxpr(<<>>, <<Var(0), Var(1)>>, <<Var(2)>>,
                   <<new_jaxpr_eqn(<<Var(0), Var(1)>>, <<Var(2)>>, p, "")>>),
             <<>>, <<concrete_aval(x), concrete_aval(y)>>,
             abstract_eval(p, <<concrete_aval(x), concrete_aval(y)>>))

\* The typed program of f(x) = (x p 1) q 2.
Affine(p, q, x) ==
  TypedJaxpr(Jaxpr(<<>>, <<Var(0)>>, <<Var(2)>>,
                   <<new_jaxpr_eqn(<<Var(0), One>>, <<Var(1)>>, p, ""),
                     new_jaxpr_eqn(<<Var(1), Two>>, <<Var(2)>>, q, "")>>),
             <<>>, <<concrete_aval(x)>>, <<concrete_aval(x)>>)

InitExample ==
  /\ pc = "start"
  /\ \/ \E p \in ArithPrimitives, x \in ExampleX, y \in ExampleY :
          fn = Binary(p, x, y) /\ args = <<x, y>>
     \/ \E p \in ArithPrimitives, q \in ArithPrimitives, x \in ExampleX :
          fn = Affine(p, q, x) /\ args = <<x>>
  /\ res = NoResult
  /\ NoSession

\* The lists of n booleans.
BoolSeqs(n) == [1..n -> BOOLEAN]

\* partial_eval_jaxpr(fn, unknowns, instantiate) for a mask over the inputs
\* and a list over the outputs.
PartialEvalExample ==
  /\ pc = "start"
  /\ \E unknowns \in BoolSeqs(Len(args)), instantiate \in BoolSeqs(Len(fn.out_avals)) :
       \E r \in {partial_eval_jaxpr(EmptyState, fn, unknowns, instantiate)} :
         res' = [op |-> "partial_eval_jaxpr", unknowns |-> unknowns,
                 instantiate |-> instantiate, err |-> r.S.err, out |-> r.out]
  /\ pc' = "split"
  /\ UNCHANGED <<fn, args, st, scopes, store, last>>

NextExample == TraceToJaxpr \/ EvalTraced \/ PartialEvalExample \/ RunStages

SpecExample == InitExample /\ [][NextExample]_vars

\* ------------------------------------------------------------- session

\* The most tracer objects a session creates.
MaxTracers == 2

\* The most layer groups a session creates.
MaxMasters == 3

\* The deepest nesting of scopes of a session.
MaxDepth == 2

\* The most tracers a session saves outside every scope.
MaxStored == 1

\* The raw value the session's code passes around.
SessionRaw == Raw(TRUE, 2, 1)

\* The caller catches the exception of an operation; the raw results of an
\* operation are not kept, so their identities are free again.
Handle(S) == [S EXCEPT !.err = NoError, !.nobj = EmptyState.nobj, !.calls = <<>>]

\* The innermost open scope gets the tracers among vals as locals.
AddLocals(sc, vals) ==
  [sc EXCEPT ![Len(sc)].locals =
     @ \cup {vals[i].id : i \in {i \in 1..Len(vals) : IsTracer(vals[i])}}]

\* The locals of the scopes sc.
LocalsOf(sc) == UNION {sc[i].locals : i \in 1..Len(sc)}

\* The values the session's code can name: the saved tracers, the locals of
\* the open scopes, a raw value.
Values == {TrRef(t) : t \in store \cup LocalsOf(scopes)} \cup {SessionRaw}

\* The groups of the open scopes.
OpenMasters == {scopes[i].m : i \in {i \in 1..Len(scopes) : scopes[i].kind = "master"}}

Top == scopes[Len(scopes)]

\* An exception is fatal: the session ends with it.
Running == last.err = NoError

InitSession ==
  /\ pc = "session"
  /\ fn = <<>>
  /\ args = <<>>
  /\ res = NoResult
  /\ NoSession

\* core.check_leaks = True, set before any tracing.
EnableCheckLeaks ==
  /\ Running
  /\ ~st.check_leaks
  /\ Len(scopes) = 1 /\ st.masters = <<>>
  /\ st' = [st EXCEPT !.check_leaks = TRUE]
  /\ last' = [op |-> "check_leaks"] @@ Idle
  /\ UNCHANGED <<pc, fn, args, res, scopes, store>>

\* with new_master(JaxprTrace) as master: the body starts.
NewMaster ==
  /\ Running
  /\ Len(scopes) <= MaxDepth
  /\ Len(st.masters) < MaxMasters
  /\ \E r \in {new_master_enter(st, "JaxprTrace", FALSE)} :
       /\ st' = r.S
       /\ scopes' = Append(scopes, [kind |-> "master", m |-> r.out, locals |-> {}])
       /\ last' = [op |-> "new_master", m |-> r.out] @@ Idle
  /\ UNCHANGED <<pc, fn, args, res, store>>

\* The body of the innermost new_master ends: its locals die, the saved
\* tracers and the locals of the outer scopes stay referenced.
ExitMaster ==
  /\ Running
  /\ Top.kind = "master"
  /\ \E outer \in {SubSeq(scopes, 1, Len(scopes) - 1)} :
       \E S1 \in {new_master_exit(st, FALSE, Top.m, store \cup LocalsOf(outer))} :
         /\ st' = Handle(S1)
         /\ scopes' = outer
         /\ last' = [op |-> "new_master.exit", m |-> Top.m, err |-> S1.err] @@ Idle
  /\ UNCHANGED <<pc, fn, args, res, store>>

\* with new_sublevel(): the body starts, inside the scope of a group.
NewSublevel ==
  /\ Running
  /\ Len(scopes) <= MaxDepth
  /\ OpenMasters # {}
  /\ st' = new_sublevel_enter(st)
  /\ scopes' = Append(scopes, [kind |-> "sublevel", m |-> 0, locals |-> {}])
  /\ last' = [op |-> "new_sublevel"] @@ Idle
  /\ UNCHANGED <<pc, fn, args, res, store>>

\* The body of the innermost new_sublevel ends.
ExitSublevel ==
  /\ Running
  /\ Top.kind = "sublevel"
  /\ \E S1 \in {new_sublevel_exit(st)} :
       /\ st' = Handle(S1)
       /\ scopes' = SubSeq(scopes, 1, Len(scopes) - 1)
       /\ last' = [op |-> "new_sublevel.exit", err |-> S1.err] @@ Idle
  /\ UNCHANGED <<pc, fn, args, res, store>>

\* trace = JaxprTrace(master, core.cur_sublevel()); trace.new_arg(pval) for the
\* group of the innermost new_master and an Unknown pval.
NewArg ==
  /\ Running
  /\ OpenMasters # {}
  /\ \E trace \in {Trace(st, st.upward[Len(st.upward)], cur_sublevel(st))} :
       \E r \in {new_arg(st, trace, PartialVal(ShapedScalar, unit))} :
         /\ Len(r.S.heap) <= MaxTracers
         /\ st' = Handle(r.S)
         /\ scopes' = AddLocals(scopes, <<r.out>>)
         /\ last' = [op |-> "new_arg", m |-> trace.m, trace |-> trace, err |-> r.S.err,
                     out |-> <<r.out>>, nheap |-> Len(st.heap)] @@ Idle
  /\ UNCHANGED <<pc, fn, args, res, store>>

\* The traced code saves a local of the innermost scope in a list outside
\* every scope.
StoreTracer ==
  \E t \in Top.locals \ store :
    /\ Running
    /\ Cardinality(store) < MaxStored
    /\ store' = store \cup {t}
    /\ last' = [op |-> "store", args |-> <<TrRef(t)>>] @@ Idle
    /\ UNCHANGED <<pc, fn, args, res, st, scopes>>

\* primitive.bind(a, b)
Bind ==
  \E a \in Values, b \in Values :
    \E r \in {bind(st, "sub", <<a, b>>)} :
      /\ Running
      /\ Len(r.S.heap) <= MaxTracers
      /\ st' = Handle(r.S)
      /\ scopes' = AddLocals(scopes, r.out)
      /\ last' = [op |-> "bind", args |-> <<a, b>>, err |-> r.S.err, out |-> r.out,
                  nheap |-> Len(st.heap), calls |-> r.S.calls] @@ Idle
      /\ UNCHANGED <<pc, fn, args, res, store>>

\* JaxprTrace(master, core.cur_sublevel()).full_raise(val) for a group of an
\* open scope.
FullRaise ==
  \E m \in OpenMasters, val \in Values :
    \E trace \in {Trace(st, m, cur_sublevel(st))} :
      \E r \in {full_raise(st, trace, val)} :
        /\ Running
        /\ Len(r.S.heap) <= MaxTracers
        /\ st' = Handle(r.S)
        /\ scopes' = AddLocals(scopes, <<r.out>>)
        /\ last' = [op |-> "full_raise", m |-> m, trace |-> trace, args |-> <<val>>,
                    err |-> r.S.err, out |-> <<r.out>>, nheap |-> Len(st.heap)] @@ Idle
        /\ UNCHANGED <<pc, fn, args, res, store>>

Next ==
  \/ EnableCheckLeaks
  \/ NewMaster
  \/ ExitMaster
  \/ NewSublevel
  \/ ExitSublevel
  \/ NewArg
  \/ StoreTracer
  \/ Bind
  \/ FullRaise

Spec == InitSession /\ [][Next]_vars

\* ------------------------------------------------------------- dispatch

\* A raw array the session's code passes around.
SessionArray == Raw(FALSE, 3, 2)

\* The layer of the innermost open group at the current sublevel:
\* JaxprTrace(master, core.cur_sublevel()).
InnerTrace == Trace(st, st.upward[Len(st.upward)], cur_sublevel(st))

\* trace.new_const(val) on the layer of the innermost group: a Known tracer.
NewConst ==
  /\ Running
  /\ OpenMasters # {}
  /\ \E val \in {SessionRaw, SessionArray} :
       \E r \in {new_const(st, InnerTrace, val)} :
         /\ Len(r.S.heap) <= MaxTracers
         /\ st' = Handle(r.S)
         /\ scopes' = AddLocals(scopes, <<r.out>>)
         /\ last' = [op |-> "new_const", m |-> InnerTrace.m, trace |-> InnerTrace,
                     args |-> <<val>>, err |-> r.S.err, out |-> <<r.out>>,
                     nheap |-> Len(st.heap)] @@ Idle
  /\ UNCHANGED <<pc, fn, args, res, store>>

\* primitive.bind(a, b) for a single-result primitive and any two values
\* the code can name.
Apply ==
  \E primitive \in {"sub"}, a \in Values, b \in Values :
    \E r \in {bind(st, primitive, <<a, b>>)} :
      /\ pc = "session"
      /\ pc' = "applied"
      /\ st' = Handle(r.S)
      /\ scopes' = AddLocals(scopes, r.out)
      /\ last' = [op |-> "bind", primitive |-> primitive, args |-> <<a, b>>,
                  err |-> r.S.err, out |-> r.out, nheap |-> Len(st.heap),
                  calls |-> r.S.calls] @@ Idle
      /\ UNCHANGED <<fn, args, res, store>>

\* The tracers the code can name that the layer trace owns.
OwnedBy(trace) ==
  {v \in Values : IsTracer(v) /\ TraceOf(st, v) = trace}

\* trace.process_primitive(primitive, [a, b], {}) on the layer of the
\* innermost group, for tracers of that layer.
ProcessPrimitive ==
  /\ pc = "session"
  /\ pc' = "applied"
  /\ OpenMasters # {}
  /\ \E primitive \in Primitives, a \in OwnedBy(InnerTrace), b \in OwnedBy(InnerTrace) :
       \E r \in {process_primitive(st, InnerTrace, primitive, <<a, b>>)} :
         /\ st' = Handle(r.S)
         /\ scopes' = AddLocals(scopes, r.out)
         /\ last' = [op |-> "process_primitive", primitive |-> primitive,
                     m |-> InnerTrace.m, trace |-> InnerTrace, args |-> <<a, b>>,
                     err |-> r.S.err, out |-> r.out, nheap |-> Len(st.heap),
                     calls |-> r.S.calls] @@ Idle
  /\ UNCHANGED <<fn, args, res, store>>

\* The session up to one application, which ends the run.
NextDispatch ==
  \/ pc = "session" /\ NewMaster
  \/ pc = "session" /\ ExitMaster
  \/ pc = "session" /\ NewSublevel
  \/ pc = "session" /\ ExitSublevel
  \/ pc = "session" /\ NewArg
  \/ pc = "session" /\ NewConst
  \/ pc = "session" /\ StoreTracer
  \/ Apply
  \/ ProcessPrimitive

SpecDispatch == InitSession /\ [][NextDispatch]_vars

\* ------------------------------------------------------------- calling

\* The values the session's code passes to a call or captures in the called
\* function.
CallValues == Values \cup {SessionArray}

\* The sequences of at most n call values.
Captures(n) == UNION {[1..k -> CallValues] : k \in 0..n}

\* A Python function of n arguments closing over the values captured: its
\* body applies the equations eqns to the captured values (the first
\* variables) and the arguments (the next ones) and returns outvars.
Closure(captured, n, eqns, outvars) ==
  jaxpr_as_fun(TypedJaxpr(Jaxpr([i \in 1..Len(captured) |-> Var(i - 1)],
                                [i \in 1..n |-> Var(Len(captured) + i - 1)],
                                outvars, eqns),
                          captured, <<>>, <<>>))

\* f(*args) = (*captured, *args)
Returning(captured, n) ==
  Closure(captured, n, <<>>, [i \in 1..(Len(captured) + n) |-> Var(i - 1)])

\* f(*args) = sub(v, w) for the last and the first of (*captured, *args).
Subtracting(captured, n) ==
  Closure(captured, n,
          <<new_jaxpr_eqn(<<Var(Len(captured) + n - 1), Var(0)>>,
                          <<Var(Len(captured) + n)>>, "sub", "")>>,
          <<Var(Len(captured) + n)>>)

\* f(*args) = sub(sub(v, w), w) for the last and the first of
\* (*captured, *args).
SubtractingTwice(captured, n) ==
  Closure(captured, n,
          <<new_jaxpr_eqn(<<Var(Len(captured) + n - 1), Var(0)>>,
                          <<Var(Len(captured) + n)>>, "sub", ""),
            new_jaxpr_eqn(<<Var(Len(captured) + n), Var(0)>>,
                          <<Var(Len(captured) + n + 1)>>, "sub", "")>>,
          <<Var(Len(captured) + n + 1)>>)

\* The functions the session's code calls with n arguments.
Closures(n) ==
  {Returning(c, n) : c \in Captures(2 - n)}
    \cup {Subtracting(c, n) : c \in {c \in Captures(1) : Len(c) + n >= 1}}
    \cup {SubtractingTwice(c, n) : c \in {c \in Captures(1) : Len(c) = 1 /\ n = 1}}

\* with new_master(StagingJaxprTrace): the group trace_to_jaxpr opens with
\* stage_out_calls; the body starts.
NewStagingMaster ==
  /\ Running
  /\ Len(scopes) <= MaxDepth
  /\ Len(st.masters) < MaxMasters
  /\ \E r \in {new_master_enter(st, "StagingJaxprTrace", FALSE)} :
       /\ st' = r.S
       /\ scopes' = Append(scopes, [kind |-> "master", m |-> r.out, locals |-> {}])
       /\ last' = [op |-> "new_master", m |-> r.out] @@ Idle
  /\ UNCHANGED <<pc, fn, args, res, store>>

\* core.call(f, *args) for a function f of the session's code.
CallBind ==
  /\ pc = "session"
  /\ pc' = "called"
  /\ \E n \in 0..2 :
       \E f \in Closures(n), xs \in [1..n -> CallValues] :
         \E r \in {call_bind(st, call_p, f, xs)} :
           /\ st' = Handle(r.S)
           /\ fn' = f
           /\ scopes' = AddLocals(scopes, IF Failed(r.S) THEN <<>> ELSE r.out)
           /\ last' = [op |-> "call_bind", primitive |-> call_p, args |-> xs,
                       err |-> r.S.err, out |-> IF Failed(r.S) THEN <<>> ELSE r.out,
                       nheap |-> Len(st.heap), calls |-> r.S.calls] @@ Idle
  /\ UNCHANGED <<args, res, store>>

\* The session up to one call, which ends the run.
NextCall ==
  \/ pc = "session" /\ NewMaster
  \/ pc = "session" /\ NewStagingMaster
  \/ pc = "session" /\ NewSublevel
  \/ pc = "session" /\ NewArg
  \/ pc = "session" /\ NewConst
  \/ CallBind

SpecCall == InitSession /\ [][NextCall]_vars

\* ------------------------------------------------------------- linearizing

\* The tracers the session's code can name.
TracerValues == {v \in Values : IsTracer(v)}

\* The lists of input tracers the code declares: up to two different ones.
InTracerChoices ==
  {<<>>} \cup {<<a>> : a \in TracerValues}
         \cup {ab \in TracerValues \X TracerValues : ab[1] # ab[2]}

\* tracers_to_jaxpr(in_tracers, [out]) for tracers the code can name.
TracersToJaxpr ==
  \E in_tracers \in InTracerChoices, out \in TracerValues :
    \E r \in {tracers_to_jaxpr(st, in_tracers, <<out>>)} :
      /\ pc = "session"
      /\ pc' = "linearized"
      /\ last' = [op |-> "tracers_to_jaxpr", args |-> in_tracers, err |-> r.S.err,
                  out |-> IF Failed(r.S) THEN <<>> ELSE <<r.out>>,
                  outs |-> <<out>>] @@ Idle
      /\ UNCHANGED <<fn, args, res, st, scopes, store>>

\* A session of nested groups and sublevels up to one linearization, which
\* ends the run.
NextLinearize ==
  \/ pc = "session" /\ NewMaster
  \/ pc = "session" /\ NewSublevel
  \/ pc = "session" /\ NewArg
  \/ pc = "session" /\ NewConst
  \/ pc = "session" /\ Bind
  \/ pc = "session" /\ FullRaise
  \/ TracersToJaxpr

SpecLinearize == InitSession /\ [][NextLinearize]_vars

\* ------------------------------------------------------------- C1

\* merge_pvals
merge_pvals(val, pval) == IF IsAbstractValue(pval.pv) THEN val ELSE pval.const

AllUnknown == res.unknowns = <<TRUE, TRUE>>
AllKnown == res.unknowns = <<FALSE, FALSE>>

\* C1 as stated: with every input tagged Unknown, tracing succeeds and
\* eval_jaxpr of the returned program on the returned constants and the same
\* inputs returns exactly the outputs of the direct call.
C1_ReplayEqualsDirect ==
  /\ (pc = "traced" /\ AllUnknown) => res.err = NoError
  /\ (pc = "replayed" /\ AllUnknown) =>
       \A direct \in {Direct.out} :
         /\ res.err = NoError
         /\ Len(res.vals) = Len(direct)
         /\ \A i \in 1..Len(res.vals) : SameValue(res.vals[i], direct[i])

\* C1 (amended): with every input tagged Unknown, tracing and the replay
\* succeed, and each output of the direct call is the replay's output where
\* the returned PartialVal is Unknown and the PartialVal's constant where it
\* is Known (merge_pvals); with instantiate every returned PartialVal is
\* Unknown, so the replay alone gives the direct outputs.
C1_ReplayMergedEqualsDirect ==
  /\ (pc = "traced" /\ AllUnknown) => res.err = NoError
  /\ (pc = "replayed" /\ AllUnknown) =>
       \A direct \in {Direct.out} :
         /\ res.err = NoError
         /\ Len(res.vals) = Len(direct)
         /\ Len(res.out.out_pvals) = Len(direct)
         /\ \A i \in 1..Len(res.vals) :
              /\ SameValue(merge_pvals(res.vals[i], res.out.out_pvals[i]), direct[i])
              /\ res.instantiate => /\ IsAbstractValue(res.out.out_pvals[i].pv)
                                    /\ SameValue(res.vals[i], direct[i])

\* A two-equation program was traced with Unknown inputs and replayed, and
\* an output of the second equation was compared.
C1_Witness ==
  /\ pc = "replayed" /\ AllUnknown /\ res.err = NoError
  /\ Len(res.out.jaxpr.eqns) = 2
  /\ \E i \in 1..Len(res.vals) :
       /\ IsAbstractValue(res.out.out_pvals[i].pv)
       /\ \E j \in 1..Len(res.out.jaxpr.eqns[2].outvars) :
            res.out.jaxpr.outvars[i] = res.out.jaxpr.eqns[2].outvars[j]

\* ------------------------------------------------------------- C4

\* The variables bound before equation i of a program: the unit variable,
\* the constant-variables, the inputs and the outputs of equations 1..i-1.
BoundBefore(jaxpr, i) ==
  {unitvar} \cup {jaxpr.constvars[j] : j \in 1..Len(jaxpr.constvars)}
            \cup {jaxpr.invars[j] : j \in 1..Len(jaxpr.invars)}
            \cup UNION {{jaxpr.eqns[e].outvars[j] : j \in 1..Len(jaxpr.eqns[e].outvars)} :
                        e \in 1..(i - 1)}

TopologicallyValid(jaxpr) ==
  /\ \A i \in 1..Len(jaxpr.eqns) : \A j \in 1..Len(jaxpr.eqns[i].invars) :
       jaxpr.eqns[i].invars[j].k # "Literal" => jaxpr.eqns[i].invars[j] \in BoundBefore(jaxpr, i)
  /\ \A j \in 1..Len(jaxpr.outvars) :
       jaxpr.outvars[j].k # "Literal" =>
         jaxpr.outvars[j] \in BoundBefore(jaxpr, Len(jaxpr.eqns) + 1)

\* C4: in every program tracers_to_jaxpr returns, every non-literal input of
\* every equation and every output of the program is the unit variable, a
\* constant-variable, an input variable or an output of a strictly earlier
\* equation.
C4_TopologicalValidity ==
  (pc = "traced" /\ res.err = NoError) => TopologicallyValid(res.out.jaxpr)

\* A traced program whose second equation reads an output of its first.
C4_Witness ==
  /\ pc = "traced" /\ res.err = NoError
  /\ Len(res.out.jaxpr.eqns) = 2
  /\ \E j \in 1..Len(res.out.jaxpr.eqns[2].invars) :
       \E k \in 1..Len(res.out.jaxpr.eqns[1].outvars) :
         res.out.jaxpr.eqns[2].invars[j] = res.out.jaxpr.eqns[1].outvars[k]

\* ------------------------------------------------------------- C5

\* C5 as stated: with every input Known, the returned PartialVals are all
\* Known and hold the values of the direct call, and the program has no
\* equation.
C5_AllKnownStaysKnown ==
  (pc = "traced" /\ AllKnown) =>
    \A direct \in {Direct.out} :
      /\ res.err = NoError
      /\ res.out.jaxpr.eqns = <<>>
      /\ Len(res.out.out_pvals) = Len(direct)
      /\ \A i \in 1..Len(res.out.out_pvals) :
           /\ res.out.out_pvals[i].pv = None
           /\ SameValue(res.out.out_pvals[i].const, direct[i])

\* C5 (amended): with every input Known the program has no equation; with
\* instantiate false the returned PartialVals are all Known and hold the
\* values of the direct call; with instantiate true they are all Unknown and
\* the program's outputs are the literals and constant-variables that
\* evaluate to the values of the direct call.
C5_AllKnownNoEquations ==
  /\ (pc = "traced" /\ AllKnown) =>
       \A direct \in {Direct.out} :
         /\ res.err = NoError
         /\ res.out.jaxpr.eqns = <<>>
         /\ Len(res.out.out_pvals) = Len(direct)
         /\ \A i \in 1..Len(res.out.out_pvals) :
              IF res.instantiate
              THEN IsAbstractValue(res.out.out_pvals[i].pv) /\ res.out.out_pvals[i].const = unit
              ELSE /\ res.out.out_pvals[i].pv = None
                   /\ SameValue(res.out.out_pvals[i].const, direct[i])
  /\ (pc = "replayed" /\ AllKnown /\ res.instantiate) =>
       \A direct \in {Direct.out} :
         /\ res.err = NoError
         /\ \A i \in 1..Len(res.vals) : SameValue(res.vals[i], direct[i])

\* A function of two primitive applications was traced with Known inputs.
C5_Witness ==
  /\ pc = "traced" /\ AllKnown /\ ~res.instantiate /\ res.err = NoError
  /\ Len(fn.jaxpr.eqns) = 2
  /\ \E j \in 1..Len(fn.jaxpr.eqns[2].outvars) : fn.jaxpr.outvars[1] = fn.jaxpr.eqns[2].outvars[j]

\* ------------------------------------------------------------- C2

\* C2: for every unknown-mask, partial_eval_jaxpr succeeds, and running
\* stage 1 and then stage 2 on stage 1's residuals and the unknown inputs
\* reproduces every output of the program: an output reported known is
\* stage 1's, an output reported unknown is stage 2's.
C2_StagesReproduceOutputs ==
  /\ pc = "split" => res.err = NoError
  /\ pc = "staged" =>
       \A direct \in {Direct.out} :
         /\ res.err = NoError
         /\ Len(res.out.uk_out) = Len(direct)
         /\ Len(res.vals1) = Len(direct) /\ Len(res.vals2) = Len(direct)
         /\ \A i \in 1..Len(direct) :
              SameValue(IF res.out.uk_out[i] THEN res.vals2[i] ELSE res.vals1[i], direct[i])

\* A split with one known and one unknown input where stage 1 computed an
\* equation, passed a residual on, and stage 2 computed an unknown output
\* with an equation of its own.
C2_Witness ==
  /\ pc = "staged" /\ res.err = NoError
  /\ res.unknowns \in {<<TRUE, FALSE>>, <<FALSE, TRUE>>}
  /\ res.out.typed_jaxpr_1.jaxpr.eqns # <<>>
  /\ res.out.typed_jaxpr_2.jaxpr.eqns # <<>>
  /\ res.residuals # <<>>
  /\ \E i \in 1..Len(res.out.uk_out) : res.out.uk_out[i]

\* ------------------------------------------------------------- C3

\* C3: for every live-output mask, evaluating the program _dce_jaxpr returns
\* succeeds and gives, at every output position the mask selects, the value
\* the original program gives on the same inputs and constants.
C3_DceKeepsLiveOutputs ==
  pc = "evaluated" =>
    \A direct \in {Direct.out} :
      /\ res.err = NoError
      /\ Len(res.vals) = Len(direct)
      /\ \A i \in 1..Len(res.vals) : res.outputs[i] => SameValue(res.vals[i], direct[i])

\* A two-equation program pruned to one equation, the output that equation
\* defines selected by the mask and evaluated, the other output masked.
C3_Witness ==
  /\ pc = "evaluated" /\ res.err = NoError
  /\ Len(fn.jaxpr.eqns) = 2
  /\ Len(res.out.jaxpr.eqns) = 1
  /\ \E i \in 1..Len(res.outputs) :
       /\ res.outputs[i]
       /\ res.out.jaxpr.outvars[i] = res.out.jaxpr.eqns[1].outvars[1]
  /\ \E i \in 1..Len(res.outputs) : ~res.outputs[i]

\* ------------------------------------------------------------- C6

\* The argument of the last full_raise.
LastVal == last.args[1]

\* The layer that owns the argument of the last full_raise.
LastSrc == TraceOf(st, LastVal)

\* The last operation was a bind or a full_raise with a saved tracer whose
\* group's scope has exited among its arguments.
UsedEscaped ==
  /\ last.op \in {"bind", "full_raise"}
  /\ \E i \in 1..Len(last.args) :
       /\ IsTracer(last.args[i])
       /\ last.args[i].id \in store
       /\ TraceOf(st, last.args[i]).m \notin OpenMasters

\* C6 as stated: a bind or a full_raise with a tracer that was saved outside
\* its group's scope, after that scope exited, raises an error, whatever
\* scopes are open then.
C6_EscapedUseRaises == UsedEscaped => last.err # NoError

\* ------------------------------------------------------------- C7

\* The last operation was the exit of a new_master scope while a saved
\* tracer is owned by its group.
ExitedWithSaved ==
  /\ last.op = "new_master.exit"
  /\ \E t \in store : st.heap[t].trace.m = last.m

\* C7 as stated: the exit of a new_master scope while a tracer of its group
\* is saved outside the scope raises an error.
C7_LeakAtExitRaises == ExitedWithSaved => last.err # NoError

\* C7 (amended): the exit of a new_master scope pops its group; while a
\* tracer of the group is saved outside the scope the exit raises the leak
\* error if check_leaks is set, and with check_leaks unset (as the module
\* sets it) the exit raises nothing.
C7_LeakAtExitRaisesWhenChecked ==
  /\ last.op = "new_master.exit" =>
       /\ \A i \in 1..Len(st.upward) : st.upward[i] # last.m
       /\ ~st.check_leaks => last.err = NoError
  /\ (ExitedWithSaved /\ st.check_leaks) => last.err = "Leaked trace"

\* With check_leaks set, a scope exited while a tracer of its group was
\* saved, and the leak error was raised.
C7_Witness == ExitedWithSaved /\ st.check_leaks /\ last.err = "Leaked trace"

\* ------------------------------------------------------------- C8

\* The last operation was a full_raise of a tracer owned by a group of a
\* strictly lower level than the target layer's.
RaisedFromLower ==
  /\ last.op = "full_raise"
  /\ IsTracer(LastVal)
  /\ LastSrc.level < last.trace.level

\* The last operation returned a new tracer owned by the target layer with
\* PartialVal pval and recipe recipe.
ReturnedNew(pval, recipe) ==
  /\ last.err = NoError
  /\ Len(st.heap) = last.nheap + 1
  /\ last.out = <<TrRef(last.nheap + 1)>>
  /\ st.heap[last.nheap + 1] = [trace |-> last.trace, pval |-> pval, recipe |-> recipe]

\* The last operation raised the escape error and created no tracer.
RaisedEscape ==
  /\ last.err = EscapedTracerError
  /\ last.out = <<unit>>
  /\ Len(st.heap) = last.nheap

\* C8 as stated: full_raise of a tracer of a strictly lower level returns a
\* new tracer of the target layer holding the source as a Known constant,
\* whatever the sublevels.
C8_LowerLevelAlwaysLifts ==
  RaisedFromLower => ReturnedNew(PartialVal(None, LastVal), UnitRecipe)

\* C8 (amended): full_raise of a tracer of a strictly lower level returns a
\* new tracer of the target layer holding the source as a Known constant
\* when the source's sublevel is at most the target's, and raises the escape
\* error when the source's sublevel is greater.
C8_LowerLevelLiftsWithinSublevel ==
  RaisedFromLower =>
    IF LastSrc.sublevel > last.trace.sublevel THEN RaisedEscape
    ELSE ReturnedNew(PartialVal(None, LastVal), UnitRecipe)

\* A tracer of a lower level was lifted into the layer of an inner group.
C8_Witness ==
  /\ RaisedFromLower
  /\ LastSrc.sublevel <= last.trace.sublevel
  /\ last.err = NoError
  /\ st.heap[last.out[1].id].pval.const = LastVal

\* ------------------------------------------------------------- C9

\* The last operation was a full_raise of a tracer of the target layer's
\* group from a lower sublevel.
RaisedFromOuterSublevel ==
  /\ last.op = "full_raise"
  /\ IsTracer(LastVal)
  /\ LastSrc.m = last.trace.m
  /\ LastSrc.sublevel < last.trace.sublevel

\* C9 as stated: full_raise of a tracer of the same group and a lower
\* sublevel returns a new tracer of the target layer with the PartialVal and
\* the recipe of the source.
C9_SubliftKeepsRecipe ==
  RaisedFromOuterSublevel =>
    ReturnedNew(st.heap[LastVal.id].pval, st.heap[LastVal.id].recipe)

\* C9 (amended): full_raise of a tracer of the same group and a lower
\* sublevel returns a new tracer of the target layer with the PartialVal of
\* the source and a new FreeVar recipe that captures the source tracer.
C9_SubliftCapturesSource ==
  RaisedFromOuterSublevel => ReturnedNew(st.heap[LastVal.id].pval, FreeVar(LastVal))

\* An argument of a group was raised into a nested sublevel of the group.
C9_Witness ==
  /\ RaisedFromOuterSublevel
  /\ last.err = NoError
  /\ st.heap[LastVal.id].recipe = LambdaBinding
  /\ st.heap[last.out[1].id].trace.sublevel = LastSrc.sublevel + 1

\* ------------------------------------------------------------- C10

\* C10: full_raise of a tracer whose group has a strictly higher level than
\* the target layer, or the same level and is another group object, raises
\* the escape error and returns no tracer.
C10_HigherOrForeignGroupRaises ==
  (/\ last.op = "full_raise"
   /\ IsTracer(LastVal)
   /\ LastSrc.m # last.trace.m
   /\ LastSrc.level >= last.trace.level) => RaisedEscape

\* A saved tracer of a group that exited was raised into the layer of a new
\* group that reuses the level, and the escape error was raised.
C10_Witness ==
  /\ last.op = "full_raise"
  /\ IsTracer(LastVal)
  /\ LastVal.id \in store
  /\ LastSrc.m # last.trace.m
  /\ LastSrc.m \notin OpenMasters
  /\ LastSrc.level = last.trace.level
  /\ st.masters[LastSrc.m] = st.masters[last.trace.m]
  /\ RaisedEscape

\* ------------------------------------------------------------- C11

\* The positions of the tracers among the arguments of the last operation.
TracerArgs == {i \in 1..Len(last.args) : IsTracer(last.args[i])}

\* The first argument tracer of the highest level.
TopArg ==
  CHOOSE i \in TracerArgs : \A j \in TracerArgs :
    \/ TraceOf(st, last.args[j]).level < TraceOf(st, last.args[i]).level
    \/ TraceOf(st, last.args[j]).level = TraceOf(st, last.args[i]).level /\ i <= j

\* The layer of TopArg's group at the current sublevel.
TopLayer ==
  [m |-> TraceOf(st, last.args[TopArg]).m, level |-> TraceOf(st, last.args[TopArg]).level,
   sublevel |-> cur_sublevel(st)]

\* x can be raised into layer L: it is no tracer, or a tracer of L's group or
\* of a lower level, made at a sublevel that is not deeper than L's.
Raisable(x, L) ==
  \/ ~IsTracer(x)
  \/ /\ TraceOf(st, x).m = L.m \/ TraceOf(st, x).level < L.level
     /\ TraceOf(st, x).sublevel <= L.sublevel

\* The calls of layer L's process_primitive during the last operation.
LayerCalls(L) ==
  {i \in 1..Len(last.calls) :
     last.calls[i].op = "process_primitive" /\ last.calls[i].trace = L}

\* C11: bind with no tracer among its arguments calls the primitive's
\* concrete-evaluation rule on the arguments and no layer; otherwise the
\* layer is the one of the group of the argument tracer of the highest level
\* at the current sublevel, and, the arguments raised into it, its
\* process_primitive is called exactly once, first, with as many arguments,
\* all tracers owned by that layer; when an argument cannot be raised the
\* escape error is raised and nothing is called.
C11_BindDispatch ==
  last.op = "bind" =>
    IF TracerArgs = {} THEN last.calls = <<Call("impl", NoTrace, last.args)>>
    ELSE IF \A i \in 1..Len(last.args) : Raisable(last.args[i], TopLayer)
    THEN /\ LayerCalls(TopLayer) = {1}
         /\ Len(last.calls[1].args) = Len(last.args)
         /\ \A j \in 1..Len(last.calls[1].args) :
              /\ IsTracer(last.calls[1].args[j])
              /\ TraceOf(st, last.calls[1].args[j]) = TopLayer
    ELSE last.err = EscapedTracerError /\ last.calls = <<>>

\* A bind of a tracer of an outer group and a tracer of an inner group: the
\* inner group's layer processed the primitive on a lifted first argument.
C11_Witness ==
  /\ last.op = "bind" /\ last.err = NoError
  /\ TracerArgs = {1, 2}
  /\ TraceOf(st, last.args[1]).level < TraceOf(st, last.args[2]).level
  /\ LayerCalls(TopLayer) = {1}
  /\ TopLayer.m = TraceOf(st, last.args[2]).m
  /\ last.calls[1].args[1] # last.args[1]
  /\ last.calls[1].args[2] = last.args[2]

\* ------------------------------------------------------------- C12

\* The variables a program binds, in order: its constant-variables, its
\* inputs, the outputs of its equations.
RECURSIVE EqnOutvars(_, _)
EqnOutvars(eqns, i) ==
  IF i > Len(eqns) THEN <<>> ELSE eqns[i].outvars \o EqnOutvars(eqns, i + 1)

Binders(jaxpr) == jaxpr.constvars \o jaxpr.invars \o EqnOutvars(jaxpr.eqns, 1)

NoDuplicates(seq) == \A i \in 1..Len(seq) : \A j \in 1..Len(seq) : seq[i] = seq[j] => i = j

\* C12: the program tracers_to_jaxpr returns has no equation twice and at
\* most as many equations as primitives were applied, and every variable of
\* it is bound exactly once, by the constant list, the input list or one
\* equation.
C12_EquationsEmittedOnce ==
  (pc = "traced" /\ res.err = NoError) =>
    /\ NoDuplicates(res.out.jaxpr.eqns)
    /\ Len(res.out.jaxpr.eqns) <= Len(fn.jaxpr.eqns)
    /\ NoDuplicates(Binders(res.out.jaxpr))
    /\ \A i \in 1..Len(Binders(res.out.jaxpr)) : Binders(res.out.jaxpr)[i].k = "Var"

\* A traced program whose second equation reads both outputs of its first
\* (two paths to one recipe), both equations emitted.
C12_Witness ==
  /\ pc = "traced" /\ res.err = NoError
  /\ Len(res.out.jaxpr.eqns) = 2
  /\ Len(res.out.jaxpr.eqns[1].outvars) = 2
  /\ res.out.jaxpr.eqns[2].invars = res.out.jaxpr.eqns[1].outvars

\* ------------------------------------------------------------- C13

\* The tracers reachable from the outputs of the last linearization that
\* have a LambdaBinding recipe and are not among its declared inputs.
UndeclaredBindings ==
  {t \in Reachable(st, {last.outs[i].id : i \in 1..Len(last.outs)}) :
     /\ st.heap[t].recipe = LambdaBinding
     /\ \A i \in 1..Len(last.args) : last.args[i].id # t}

\* C13: tracers_to_jaxpr fails with the escape error and returns no program
\* when a tracer reachable from the outputs has a LambdaBinding recipe and is
\* not, by identity, one of the declared input tracers.
C13_UndeclaredBindingRaises ==
  (last.op = "tracers_to_jaxpr" /\ UndeclaredBindings # {}) =>
    last.err = EscapedTracerError /\ last.out = <<>>

\* A linearization from the result of an equation over an argument, with
\* the result declared as the only input: the escape error was raised.
C13_Witness ==
  /\ last.op = "tracers_to_jaxpr"
  /\ last.args = last.outs
  /\ st.heap[last.outs[1].id].recipe.k = "JaxprEqnRecipe"
  /\ UndeclaredBindings # {}
  /\ last.err = EscapedTracerError

\* ------------------------------------------------------------- C14

\* f(x, y) = x p y was traced with x Known and y Unknown.
TracedKnownUnknown(p) ==
  /\ pc = "traced"
  /\ Len(args) = 2
  /\ fn = Binary(p, args[1], args[2])
  /\ res.unknowns = <<FALSE, TRUE>>

\* The traced program has the one equation of p, whose second operand is
\* y's input variable, and the output is Unknown.
OneEquationOverY(p) ==
  /\ res.err = NoError
  /\ Len(res.out.jaxpr.eqns) = 1
  /\ res.out.jaxpr.eqns[1].primitive = p
  /\ Len(res.out.jaxpr.invars) = 2
  /\ res.out.jaxpr.eqns[1].invars[2] = res.out.jaxpr.invars[2]
  /\ res.out.jaxpr.outvars = res.out.jaxpr.eqns[1].outvars
  /\ Len(res.out.out_pvals) = 1
  /\ IsAbstractValue(res.out.out_pvals[1].pv)

\* The first operand of the equation is a constant-variable of the program
\* whose returned constant is x.
FirstOperandHoisted ==
  /\ res.out.jaxpr.eqns[1].invars[1].k = "Var"
  /\ res.out.jaxpr.constvars = <<res.out.jaxpr.eqns[1].invars[1]>>
  /\ res.out.consts = <<args[1]>>

\* The first operand of the equation is the literal x, and the program has
\* no constant-variable.
FirstOperandInlined ==
  /\ res.out.jaxpr.eqns[1].invars[1] = Literal(args[1])
  /\ res.out.jaxpr.constvars = <<>>
  /\ res.out.consts = <<>>

\* C14 as stated: tracing f(x, y) = x + y with x = Known(5), a scalar, and y
\* Unknown gives one add equation whose first operand is a hoisted
\* constant-variable bound to 5 and whose second operand is y's variable,
\* and an Unknown output.
C14_KnownScalarHoisted ==
  (TracedKnownUnknown("add") /\ args[1] = Raw(TRUE, 5, 1)) =>
    OneEquationOverY("add") /\ FirstOperandHoisted

\* C14 (amended): tracing f(x, y) = x p y with x Known and y Unknown gives
\* one equation of p whose second operand is y's variable, and an Unknown
\* output; the first operand is the inlined literal x when x is a scalar
\* constant (so for 5), and a hoisted constant-variable bound to x otherwise.
C14_KnownScalarInlined ==
  \A p \in ArithPrimitives :
    TracedKnownUnknown(p) =>
      /\ OneEquationOverY(p)
      /\ IF args[1].sc THEN FirstOperandInlined ELSE FirstOperandHoisted

\* f(x, y) = x + y was traced with x = Known(5) and y an Unknown scalar.
C14_Witness ==
  /\ TracedKnownUnknown("add")
  /\ args = <<Raw(TRUE, 5, 1), Raw(TRUE, 7, 2)>>
  /\ res.err = NoError
  /\ res.out.jaxpr.eqns[1].invars[1] = Literal(Raw(TRUE, 5, 1))

\* ------------------------------------------------------------- C15

\* f(x) = (x p 1) q 2 was split with its input unknown.
SplitUnknown(p, q) ==
  /\ pc \in {"split", "staged"}
  /\ Len(args) = 1
  /\ fn = Affine(p, q, args[1])
  /\ res.unknowns = <<TRUE>>

\* C15: partial_eval_jaxpr of the two-equation program of f(x) = (x + 1) * 2
\* (and of the same shape with other primitives) with unknown-mask [True]
\* returns a stage 1 without equations, a stage 2 with both equations in
\* order, no residual (stage 1 has the program's one output, stage 2 the
\* program's one input) and the output-unknown mask [True].
C15_UnknownInputAllInStage2 ==
  \A p \in ArithPrimitives, q \in ArithPrimitives :
    SplitUnknown(p, q) =>
      /\ res.err = NoError
      /\ res.out.typed_jaxpr_1.jaxpr.eqns = <<>>
      /\ Len(res.out.typed_jaxpr_2.jaxpr.eqns) = 2
      /\ res.out.typed_jaxpr_2.jaxpr.eqns[1].primitive = p
      /\ res.out.typed_jaxpr_2.jaxpr.eqns[2].primitive = q
      /\ res.out.typed_jaxpr_2.jaxpr.eqns[2].invars[1] =
           res.out.typed_jaxpr_2.jaxpr.eqns[1].outvars[1]
      /\ Len(res.out.typed_jaxpr_1.jaxpr.outvars) = 1
      /\ Len(res.out.typed_jaxpr_2.jaxpr.invars) = 1
      /\ res.out.typed_jaxpr_1.literals = <<>>
      /\ res.out.uk_out = <<TRUE>>
      /\ pc = "staged" => res.residuals = <<>>

\* f(x) = (x + 1) * 2 was split with mask [True] and the stages were run.
C15_Witness ==
  /\ SplitUnknown("add", "mul")
  /\ pc = "staged"
  /\ res.err = NoError
  /\ res.vals2 = <<Raw(TRUE, 12, 101)>>

\* ------------------------------------------------------------- C17

\* The layer's process_primitive was called with at least one Unknown input
\* tracer.
ProcessedWithUnknown ==
  /\ last.op = "process_primitive"
  /\ \E i \in 1..Len(last.args) : IsAbstractValue(st.heap[last.args[i].id].pval.pv)

\* Tracer t was created by the last operation.
IsNew(t) == IsTracer(t) /\ t.id > last.nheap /\ t.id <= Len(st.heap)

\* What input tracer x of the last process_primitive became in the equation:
\* an Unknown input is itself; a Known input is a new Unknown tracer of the
\* layer with a Literal recipe for a scalar constant and a ConstVar recipe
\* for any other value.
InstantiatedAs(x, t) ==
  LET pval == st.heap[x.id].pval
  IN IF IsAbstractValue(pval.pv) THEN t = x
     ELSE /\ IsNew(t)
          /\ st.heap[t.id].trace = last.trace
          /\ st.heap[t.id].pval = PartialVal(concrete_aval(pval.const), unit)
          /\ st.heap[t.id].recipe =
               IF IsScalarLiteralable(pval.const) THEN Literal(pval.const)
               ELSE ConstVar(pval.const)

\* The abstract values of the inputs of the last process_primitive.
InputAvals == [i \in 1..Len(last.args) |-> get_aval(st, last.args[i])]

\* C17: process_primitive with at least one Unknown input returns new
\* tracers of the layer, one per result of the primitive, whose partial
\* values are (abstract-evaluation result, unit) and which all refer to one
\* equation recipe no earlier tracer refers to; the recipe is of the
\* primitive, lists the returned tracers as outputs, and its inputs are the
\* Unknown inputs themselves, a new literal tracer for each Known scalar
\* input and a new constant-variable tracer for each other Known input.
\* Nothing is evaluated.
C17_UnknownInputStagesEquation ==
  ProcessedWithUnknown =>
    /\ last.err = NoError
    /\ Len(last.out) = Len(abstract_eval(last.primitive, InputAvals))
    /\ \A i \in 1..Len(last.out) :
         /\ IsNew(last.out[i])
         /\ \A j \in 1..Len(last.out) : i # j => last.out[i] # last.out[j]
         /\ st.heap[last.out[i].id].trace = last.trace
         /\ st.heap[last.out[i].id].pval =
              PartialVal(abstract_eval(last.primitive, InputAvals)[i], unit)
         /\ st.heap[last.out[i].id].recipe = EqnRecipeRef(Len(st.recipes))
    /\ \A t \in 1..last.nheap : st.heap[t].recipe # EqnRecipeRef(Len(st.recipes))
    /\ st.recipes[Len(st.recipes)].primitive = last.primitive
    /\ st.recipes[Len(st.recipes)].outvars = last.out
    /\ Len(st.recipes[Len(st.recipes)].invars) = Len(last.args)
    /\ \A i \in 1..Len(last.args) :
         InstantiatedAs(last.args[i], st.recipes[Len(st.recipes)].invars[i])
    /\ \A i \in 1..Len(last.calls) : last.calls[i].op = "process_primitive"

\* An equation over a Known array and an Unknown input was staged: the
\* array became a constant-variable tracer.
C17_Witness ==
  /\ ProcessedWithUnknown
  /\ last.err = NoError
  /\ last.primitive = "addsub"
  /\ st.heap[last.args[1].id].pval = PartialVal(None, SessionArray)
  /\ IsAbstractValue(st.heap[last.args[2].id].pval.pv)
  /\ st.heap[st.recipes[Len(st.recipes)].invars[1].id].recipe = ConstVar(SessionArray)

\* An equation over a Known scalar and an Unknown input was staged.
C17_ScalarCase ==
  /\ ProcessedWithUnknown
  /\ st.heap[last.args[2].id].pval = PartialVal(None, SessionRaw)
  /\ st.heap[st.recipes[Len(st.recipes)].invars[2].id].recipe = Literal(SessionRaw)

\* ------------------------------------------------------------- C18

\* The call equation recipes and the records of their making, in order.
CallRecipes == Ascending({e \in 1..Len(st.recipes) : st.recipes[e].primitive = call_p})
CallEquations == Ascending({i \in 1..Len(last.calls) : last.calls[i].op = "call_equation"})

\* Call equation recipe R was recorded for nested program jaxpr over the
\* residual-constant tracers, the free-variable tracers and the argument
\* tracers of record ev, in this order, position by position the inputs of
\* its call_jaxpr: the constant-variables of jaxpr first, then its inputs
\* (free variables, then declared inputs).
CallEquationMatches(R, ev) ==
  /\ R.invars = ev.const_tracers \o ev.env_tracers \o ev.tracers
  /\ R.params.call_jaxpr.constvars = <<>>
  /\ R.params.call_jaxpr.invars = ev.jaxpr.constvars \o ev.jaxpr.invars
  /\ Len(ev.jaxpr.constvars) = Len(ev.const_tracers)
  /\ Len(ev.jaxpr.invars) = Len(ev.env_tracers) + Len(ev.tracers)
  /\ Len(R.params.call_jaxpr.invars) = Len(R.invars)
  /\ NoDuplicates(R.params.call_jaxpr.invars)
  /\ R.params.call_jaxpr.outvars = ev.jaxpr.outvars
  /\ R.params.call_jaxpr.eqns = ev.jaxpr.eqns
  /\ \A i \in 1..Len(ev.const_tracers) :
       st.heap[ev.const_tracers[i].id].recipe.k = "ConstVar"

\* C18: every call equation recorded by process_call or by the todo of
\* post_process_call has as inputs the residual constants, then the free
\* variables, then the call's arguments; they are position by position the
\* inputs of the nested program in call_jaxpr, which are the nested
\* program's constant-variables followed by its free-variable and declared
\* inputs; call_jaxpr has no constant-variable and as many inputs as the
\* equation.
C18_CallEquationInputs ==
  pc = "called" =>
    /\ Len(CallRecipes) = Len(CallEquations)
    /\ \A k \in 1..Len(CallRecipes) :
         CallEquationMatches(st.recipes[CallRecipes[k]], last.calls[CallEquations[k]].args)

\* process_call recorded a call equation over a residual constant and an
\* argument.
C18_Witness ==
  /\ pc = "called"
  /\ last.err = NoError
  /\ \E k \in 1..Len(CallRecipes) :
       /\ Len(last.calls[CallEquations[k]].args.const_tracers) = 1
       /\ Len(last.calls[CallEquations[k]].args.tracers) = 1
       /\ Len(st.recipes[CallRecipes[k]].params.call_jaxpr.invars) = 2

\* The todo of post_process_call recorded a call equation over a residual
\* constant and a free variable.
C18_TodoCase ==
  /\ pc = "called"
  /\ last.err = NoError
  /\ \E k \in 1..Len(CallRecipes) :
       /\ Len(last.calls[CallEquations[k]].args.const_tracers) = 1
       /\ Len(last.calls[CallEquations[k]].args.env_tracers) = 1
       /\ last.calls[CallEquations[k]].args.tracers = <<>>

\* process_call recorded a call equation over a free variable and an
\* argument.
C18_FreeVarCase ==
  /\ pc = "called"
  /\ last.err = NoError
  /\ \E k \in 1..Len(CallRecipes) :
       /\ Len(last.calls[CallEquations[k]].args.env_tracers) = 1
       /\ Len(last.calls[CallEquations[k]].args.tracers) = 1

\* ------------------------------------------------------------- C19

\* The records of the last operation of one kind.
Events(op) == {i \in 1..Len(last.calls) : last.calls[i].op = op}

\* The level call_bind takes for the call of record ev: the level of the
\* layer it dispatches to, or the level below every group.
CallLevel(ev) == IF ev.trace.m = 0 THEN -(Len(st.downward) + 1) ELSE ev.trace.level

CallLevels == {CallLevel(last.calls[i]) : i \in Events("call_bind")}

\* The call whose process_env_traces handles a layer of level l: the layers
\* above the call's level and below the level of the call around it.
CallOf(l) == CHOOSE L \in CallLevels : L < l /\ \A L2 \in CallLevels : L2 < l => L2 <= L

\* Records i and j are of intervening layers of the same call.
SameCall(i, j) ==
  CallOf(last.calls[i].trace.level) = CallOf(last.calls[j].trace.level)

\* C19 as stated: of two re-homing actions of one call, the one of the
\* higher-level layer is applied first.
C19_InnermostAppliedFirst ==
  pc = "called" =>
    \A i \in Events("todo"), j \in Events("todo") :
      (i < j /\ SameCall(i, j)) => last.calls[i].trace.level > last.calls[j].trace.level

\* C19: the re-homing actions of one call are collected from the
\* intervening layers from the highest level down, and after the call
\* returned they are applied from the lowest-level (outermost) layer up:
\* the action of the innermost layer is applied last.
C19_OutermostAppliedFirst ==
  pc = "called" =>
    /\ \A i \in Events("post_process_call"), j \in Events("post_process_call") :
         (i < j /\ SameCall(i, j)) =>
           last.calls[i].trace.level > last.calls[j].trace.level
    /\ \A i \in Events("todo"), j \in Events("todo") :
         (i < j /\ SameCall(i, j)) =>
           last.calls[i].trace.level < last.calls[j].trace.level
    /\ \A i \in Events("todo") :
         \E r \in Events("returned") :
           r < i /\ CallLevel(last.calls[r]) = CallOf(last.calls[i].trace.level)

\* The outputs of a call dispatched to no layer passed two layers, and
\* both their re-homing actions were applied.
C19_Witness ==
  /\ pc = "called"
  /\ last.err = NoError
  /\ \E i \in Events("todo"), j \in Events("todo") :
       /\ i < j /\ SameCall(i, j)
       /\ last.calls[i].trace.level = 0
       /\ last.calls[j].trace.level = 1

\* ------------------------------------------------------------- C20

\* The records of kind op of the layers call_bind handled for the call of
\* level L, in order.
LayerEvents(op, L) ==
  Ascending({i \in Events(op) : CallOf(last.calls[i].trace.level) = L})

\* The record of the return of the todo invoked at record i.
ReturnOfTodo(i) ==
  CHOOSE j \in Events("todo_returned") :
    j > i /\ \A k \in Events("todo_returned") : k > i => j <= k

\* The call whose impl or process_call returned at record r invoked the
\* collected todos afterwards, last collected first, each on the lowered
\* outputs of the one before.
TodosAppliedInTurn(r, collected, applied) ==
  /\ \A k \in 1..Len(collected) : collected[k] < r
  /\ \A k \in 1..Len(applied) : applied[k] > r
  /\ Len(applied) <= Len(collected)
  /\ (\E e \in Events("call_bind_returned") :
        CallLevel(last.calls[e]) = CallLevel(last.calls[r]))
       => Len(applied) = Len(collected)
  /\ \A k \in 1..Len(applied) :
       /\ last.calls[applied[k]].trace.m =
            last.calls[collected[Len(collected) + 1 - k]].trace.m
       /\ last.calls[applied[k]].args =
            IF k = 1 THEN last.calls[r].args
            ELSE [i \in 1..Len(last.calls[ReturnOfTodo(applied[k - 1])].args) |->
                    full_lower(st, last.calls[ReturnOfTodo(applied[k - 1])].args[i])]

\* C20: the closures process_env_traces collects during a call are invoked
\* only after the call's impl or process_call returned, each once, in the
\* reverse order of their collection, the first on the call's lowered
\* outputs and each next one on the fully lowered outputs of the one before;
\* no closure is invoked for a call that did not return.
C20_TodosLastInFirstOut ==
  pc = "called" =>
    /\ \A r \in Events("returned") :
         TodosAppliedInTurn(r, LayerEvents("post_process_call", CallLevel(last.calls[r])),
                            LayerEvents("todo", CallLevel(last.calls[r])))
    /\ \A i \in Events("todo") :
         \E r \in Events("returned") :
           CallLevel(last.calls[r]) = CallOf(last.calls[i].trace.level)

\* Two closures were collected and invoked, and the second one was handed a
\* value the first one's output was lowered to.
C20_Witness ==
  /\ pc = "called"
  /\ last.err = NoError
  /\ \E r \in Events("returned") :
       /\ Len(LayerEvents("todo", CallLevel(last.calls[r]))) = 2
       /\ \E i \in Events("todo_returned") :
            \E k \in 1..Len(last.calls[i].args) :
              full_lower(st, last.calls[i].args[k]) # last.calls[i].args[k]

\* ------------------------------------------------------------- C16

\* A partial value with an abstract value as its tag holds unit.
TagInvariant(pval) == IsAbstractValue(pval.pv) => pval.const = unit

NestedBody ==
  Jaxpr(<<>>, InVars, <<Var(2)>>,
        <<new_jaxpr_eqn(<<Var(0), Var(1)>>, <<Var(2)>>, "sub", ""),
          new_jaxpr_eqn(<<Var(2), One>>, <<Var(3)>>, "sub", "")>>)

\* The call equation with the operands and the result of a one-result
\* equation: the called program is the call_jaxpr parameter.
AsCall(eqn) == new_jaxpr_eqn(eqn.invars, eqn.outvars, call_p, [call_jaxpr |-> NestedBody])

\* The typed program with the equations at the indices of calls made calls.
WithCalls(typed_jaxpr, calls) ==
  [typed_jaxpr EXCEPT !.jaxpr.eqns =
     [i \in 1..Len(@) |-> IF i \in calls THEN AsCall(@[i]) ELSE @[i]]]

\* The indices of the one-result equations of a body.
OneResult(eqns) == {i \in 1..Len(eqns) : Len(eqns[i].outvars) = 1}

\* The typed program with its first input made a constant of value val.
Closing(typed_jaxpr, val) ==
  TypedJaxpr(Jaxpr(<<Head(typed_jaxpr.jaxpr.invars)>>, Tail(typed_jaxpr.jaxpr.invars),
                   typed_jaxpr.jaxpr.outvars, typed_jaxpr.jaxpr.eqns),
             <<val>>, Tail(typed_jaxpr.in_avals), typed_jaxpr.out_avals)

InitPrune ==
  /\ pc = "start"
  /\ \E b \in Bodies(MaxEqns), a \in ArgChoices, closed \in BOOLEAN :
       \E o \in OutVarChoices(b), calls \in SUBSET OneResult(b) :
         /\ fn = IF closed THEN Closing(WithCalls(TypedProgram(b, o, a), calls), a[1])
                           ELSE WithCalls(TypedProgram(b, o, a), calls)
         /\ args = IF closed THEN Tail(a) ELSE a
  /\ res = NoResult
  /\ NoSession

\* _dce_jaxpr(typed_jaxpr, outputs) on the program an earlier _dce_jaxpr
\* returned.
DcePruned ==
  /\ pc = "pruned"
  /\ \E outputs \in Masks :
       res' = [op |-> "_dce_jaxpr", outputs |-> outputs, err |-> NoError,
               out |-> _dce_jaxpr(res.out, outputs), arg |-> res.out]
  /\ pc' = "pruned again"
  /\ UNCHANGED <<fn, args, st, scopes, store, last>>

NextPrune == DceJaxpr \/ DcePruned

SpecPrune == InitPrune /\ [][NextPrune]_vars

\* ------------------------------------------------------------- C21

\* The typed program the last _dce_jaxpr was given.
PruneArg == IF pc = "pruned" THEN fn ELSE res.arg

\* The variables among the atoms of a list.
NonLiterals(atoms) == {atoms[j] : j \in {j \in 1..Len(atoms) : atoms[j].k # "Literal"}}

\* The live set when the reverse walk visits equation i: the non-literal
\* outputs, and the non-literal inputs of the later equations that had an
\* output in the live set when they were visited.
RECURSIVE LiveAt(_, _, _)
LiveAt(eqns, outvars, i) ==
  IF i = Len(eqns) THEN NonLiterals(outvars)
  ELSE Only({IF NonLiterals(eqns[i + 1].outvars) \cap later # {}
              THEN later \cup NonLiterals(eqns[i + 1].invars)
              ELSE later : later \in {LiveAt(eqns, outvars, i + 1)}})

\* The indices of the equations one reverse walk selects.
Selected(eqns, outvars) ==
  {i \in 1..Len(eqns) : NonLiterals(eqns[i].outvars) \cap LiveAt(eqns, outvars, i) # {}}

\* The subsequence of a sequence at a set of indices, in the original order.
SubSequence(seq, idx) ==
  [k \in 1..Cardinality(idx) |->
     seq[CHOOSE i \in idx : Cardinality({j \in idx : j <= i}) = k]]

\* C21: the equations of the program _dce_jaxpr returns are the equations of
\* its argument one reverse walk selects, in the original order and each the
\* original equation with its parameters, a called program included: an
\* equation is selected iff one of its outputs is live when it is visited,
\* and selecting it makes its non-literal inputs live.
C21_DceKeepsSelectedEquations ==
  pc \in {"pruned", "pruned again"} =>
    res.out.jaxpr.eqns =
      SubSequence(PruneArg.jaxpr.eqns, Selected(PruneArg.jaxpr.eqns, res.out.jaxpr.outvars))

\* A call equation was kept with the called program, dead equation included,
\* and the equation after it was dropped.
C21_Witness ==
  /\ pc = "pruned"
  /\ Len(fn.jaxpr.eqns) = 2
  /\ fn.jaxpr.eqns[1].primitive = call_p
  /\ res.out.jaxpr.eqns = <<fn.jaxpr.eqns[1]>>
  /\ Len(res.out.jaxpr.eqns[1].params.call_jaxpr.eqns) = 2

\* Two equations were kept, the second one only because the first walk step
\* made its output live.
C21_WitnessOrder ==
  /\ pc = "pruned"
  /\ Len(res.out.jaxpr.eqns) = 2
  /\ fn.jaxpr.eqns[1].outvars[1] \notin NonLiterals(res.out.jaxpr.outvars)

\* ------------------------------------------------------------- C29

\* The program result has the interface of the program arg pruned to the
\* outputs a mask selects.
PrunedInterface(arg, outputs, result) ==
  /\ result.jaxpr.constvars = arg.jaxpr.constvars
  /\ result.jaxpr.invars = arg.jaxpr.invars
  /\ result.literals = arg.literals
  /\ result.in_avals = arg.in_avals
  /\ Len(result.jaxpr.outvars) = Len(arg.jaxpr.outvars)
  /\ Len(result.out_avals) = Len(arg.out_avals)
  /\ \A i \in 1..Len(arg.jaxpr.outvars) :
       IF outputs[i]
       THEN /\ result.jaxpr.outvars[i] = arg.jaxpr.outvars[i]
            /\ result.out_avals[i] = arg.out_avals[i]
       ELSE /\ result.jaxpr.outvars[i] = unitvar
            /\ result.out_avals[i] = abstract_unit

\* C29: every _dce_jaxpr step returns a typed program with the constant
\* variables, input variables, constant values and input types of its
\* argument and as many outputs; an output the mask does not select is
\* unitvar with the abstract unit type, a selected output keeps its variable
\* and type; and the argument is afterwards what it was before the step.
C29_DceKeepsInterface ==
  [][pc' # pc =>
       \A arg \in {IF pc = "start" THEN fn ELSE res.out} :
         /\ PrunedInterface(arg, res'.outputs, res'.out)
         /\ fn' = fn
         /\ pc = "pruned" => res'.arg = arg]_vars

\* A program with a constant was pruned to its first output, a variable; the
\* second output, not unitvar before, is unitvar now.
C29_Witness ==
  /\ pc = "pruned"
  /\ fn.jaxpr.constvars # <<>>
  /\ res.outputs = <<TRUE, FALSE>>
  /\ fn.jaxpr.outvars[2] # unitvar
  /\ res.out.jaxpr.outvars = <<fn.jaxpr.outvars[1], unitvar>>
  /\ res.out.jaxpr.outvars[1].k = "Var"
  /\ res.out.jaxpr.constvars = fn.jaxpr.constvars

\* ------------------------------------------------------------- C25

\* The abstract values on the side of a mask: the list's own where the mask
\* equals side, the abstract unit elsewhere.
SideAvals(mask, avals, side) ==
  [i \in 1..Len(avals) |-> IF mask[i] = side THEN avals[i] ELSE abstract_unit]

\* The number of residuals of the last split: the outputs of stage 1 after
\* the program's own.
NumRes == Len(res.out.typed_jaxpr_1.jaxpr.outvars) - Len(fn.jaxpr.outvars)

\* C25: the typed programs partial_eval_jaxpr returns have matching
\* interfaces. Stage 1 takes the inputs typed on the known side and returns
\* the outputs typed on the known side followed by the residuals; stage 2
\* has no constants, takes the inputs typed on the unknown side followed by
\* the residuals and returns the outputs typed on the unknown side; the
\* residual types of the two stages are the same list; and in both typed
\* programs the type lists are as long as the input and output lists.
C25_StagesInterfacesMatch ==
  (pc = "split" /\ res.err = NoError) =>
    LET j1 == res.out.typed_jaxpr_1
        j2 == res.out.typed_jaxpr_2
        n == Len(fn.in_avals)
        m == Len(fn.out_avals)
    IN /\ NumRes >= 0
       /\ Len(j1.in_avals) = Len(j1.jaxpr.invars)
       /\ Len(j1.out_avals) = Len(j1.jaxpr.outvars)
       /\ Len(j2.in_avals) = Len(j2.jaxpr.invars)
       /\ Len(j2.out_avals) = Len(j2.jaxpr.outvars)
       /\ Len(j1.literals) = Len(j1.jaxpr.constvars)
       /\ j2.jaxpr.constvars = <<>> /\ j2.literals = <<>>
       /\ j1.in_avals = SideAvals(res.unknowns, fn.in_avals, FALSE)
       /\ SubSeq(j1.out_avals, 1, m) = SideAvals(res.out.uk_out, fn.out_avals, FALSE)
       /\ SubSeq(j2.in_avals, 1, n) = SideAvals(res.unknowns, fn.in_avals, TRUE)
       /\ j2.out_avals = SideAvals(res.out.uk_out, fn.out_avals, TRUE)
       /\ Len(j2.in_avals) = n + NumRes
       /\ SubSeq(j1.out_avals, m + 1, m + NumRes) = SubSeq(j2.in_avals, n + 1, n + NumRes)
       /\ \A i \in 1..NumRes : IsAbstractValue(j1.out_avals[m + i])

\* A split with one known and one unknown input, a known and an unknown
\* output, and a residual.
C25_Witness ==
  /\ pc = "split" /\ res.err = NoError
  /\ res.unknowns \in {<<TRUE, FALSE>>, <<FALSE, TRUE>>}
  /\ res.out.uk_out \in {<<TRUE, FALSE>>, <<FALSE, TRUE>>}
  /\ NumRes >= 1
  /\ res.out.typed_jaxpr_2.jaxpr.eqns # <<>>

\* ------------------------------------------------------------- C26

\* The equation of a body that defines a variable.
DefiningEqn(eqns, v) ==
  CHOOSE e \in 1..Len(eqns) : \E j \in 1..Len(eqns[e].outvars) : eqns[e].outvars[j] = v

\* An atom of a program depends on an input the mask marks unknown: it is
\* such an input, or a result of an equation with an operand that does.
RECURSIVE DependsOnUnknown(_, _, _)
DependsOnUnknown(jaxpr, unknowns, a) ==
  IF a.k # "Var" THEN FALSE
  ELSE IF \E i \in 1..Len(jaxpr.invars) : jaxpr.invars[i] = a
  THEN \E i \in 1..Len(jaxpr.invars) : jaxpr.invars[i] = a /\ unknowns[i]
  ELSE \E j \in 1..Len(jaxpr.eqns[DefiningEqn(jaxpr.eqns, a)].invars) :
         DependsOnUnknown(jaxpr, unknowns, jaxpr.eqns[DefiningEqn(jaxpr.eqns, a)].invars[j])

\* C26: partial_eval_jaxpr marks output i unknown exactly when its
\* instantiate flag is set or the output depends, through the equations, on
\* an input marked unknown; with no unknown input and no flag set every
\* output is known and stage 2 has no equations.
C26_UnknownOutputsAreDependent ==
  (pc = "split" /\ res.err = NoError) =>
    /\ Len(res.out.uk_out) = Len(fn.jaxpr.outvars)
    /\ \A i \in 1..Len(fn.jaxpr.outvars) :
         res.out.uk_out[i] <=>
           (res.instantiate[i] \/ DependsOnUnknown(fn.jaxpr, res.unknowns, fn.jaxpr.outvars[i]))
    /\ (res.unknowns = <<FALSE, FALSE>> /\ res.instantiate = <<FALSE, FALSE>>) =>
         /\ res.out.uk_out = <<FALSE, FALSE>>
         /\ res.out.typed_jaxpr_2.jaxpr.eqns = <<>>

\* One output is unknown through two equations from the unknown input, the
\* other is known and not forced.
C26_Witness ==
  /\ pc = "split" /\ res.err = NoError
  /\ res.instantiate = <<FALSE, FALSE>>
  /\ res.unknowns \in {<<TRUE, FALSE>>, <<FALSE, TRUE>>}
  /\ Len(fn.jaxpr.eqns) = 2
  /\ \E i, k \in 1..2 :
       /\ res.out.uk_out[i] /\ ~res.out.uk_out[k]
       /\ DefiningEqn(fn.jaxpr.eqns, fn.jaxpr.outvars[i]) = 2
       /\ ~DependsOnUnknown(fn.jaxpr, res.unknowns, fn.jaxpr.eqns[2].invars[2])
       /\ fn.jaxpr.outvars[k].k = "Var"

\* Nothing unknown, nothing forced: every output known, stage 2 empty, on a
\* program with equations.
C26_WitnessAllKnown ==
  /\ pc = "split" /\ res.err = NoError
  /\ res.unknowns = <<FALSE, FALSE>> /\ res.instantiate = <<FALSE, FALSE>>
  /\ Len(fn.jaxpr.eqns) = 2
  /\ res.out.typed_jaxpr_2.jaxpr.eqns = <<>>

\* ------------------------------------------------------------- C24

\* The tracers an equation recipe's operands add to a set of (tracer,
\* atom) pairs: the operands of the recipe of a paired tracer, each with the
\* operand at its position in the equation that defines the tracer's atom.
OperandPairs(jaxpr, pairs) ==
  UNION {{<<st.recipes[st.heap[b[1]].recipe.n].invars[p].id,
            jaxpr.eqns[DefiningEqn(jaxpr.eqns, b[2])].invars[p]>> :
            p \in 1..Len(st.recipes[st.heap[b[1]].recipe.n].invars)} :
         b \in {b \in pairs : st.heap[b[1]].recipe.k = "JaxprEqnRecipe"}}

\* The (tracer, atom) pairs of a linearization: the output tracers with the
\* outputs of the program, and then the operands of their equations.
RECURSIVE Bound(_, _)
Bound(jaxpr, pairs) ==
  Only({IF more \subseteq pairs THEN pairs ELSE Bound(jaxpr, pairs \cup more) :
          more \in {OperandPairs(jaxpr, pairs)}})

\* The pairs of the linearization an event records.
BoundOf(ev) ==
  Bound(ev.out.jaxpr,
        {<<ev.out_tracers[i].id, ev.out.jaxpr.outvars[i]>> : i \in 1..Len(ev.out_tracers)})

\* What tracers_to_jaxpr returned is aligned: the inputs are one variable
\* for each returned environment value, then one for each declared input
\* tracer; a paired tracer with a FreeVar, a ConstVar or a LambdaBinding
\* recipe has the variable at the position of its value or declaration, and
\* every environment value and constant is there for a paired tracer; no
\* constant is returned twice.
Aligned(ev, pairs) ==
  LET jaxpr == ev.out.jaxpr
      ne == Len(ev.out.env)
  IN /\ Len(jaxpr.invars) = ne + Len(ev.in_tracers)
     /\ Len(jaxpr.constvars) = Len(ev.out.consts)
     /\ NoDuplicates(jaxpr.constvars)
     /\ NoDuplicates([j \in 1..Len(ev.out.consts) |-> ObjectId(ev.out.consts[j])])
     /\ \A b \in pairs :
          /\ st.heap[b[1]].recipe.k = "FreeVar" =>
               \E j \in 1..ne : jaxpr.invars[j] = b[2] /\ ev.out.env[j] = st.heap[b[1]].recipe.val
          /\ st.heap[b[1]].recipe.k = "ConstVar" =>
               \E j \in 1..Len(jaxpr.constvars) :
                 /\ jaxpr.constvars[j] = b[2]
                 /\ ev.out.consts[j] = st.heap[b[1]].recipe.val
          /\ st.heap[b[1]].recipe.k = "LambdaBinding" =>
               \E k \in 1..Len(ev.in_tracers) :
                 ev.in_tracers[k].id = b[1] /\ jaxpr.invars[ne + k] = b[2]
     /\ \A j \in 1..ne :
          \E b \in pairs : /\ st.heap[b[1]].recipe = FreeVar(ev.out.env[j])
                            /\ jaxpr.invars[j] = b[2]
     /\ \A j \in 1..Len(jaxpr.constvars) :
          \E b \in pairs : /\ st.heap[b[1]].recipe = ConstVar(ev.out.consts[j])
                            /\ jaxpr.constvars[j] = b[2]
     /\ \A b, c \in pairs :
          (/\ st.heap[b[1]].recipe.k = "ConstVar" /\ st.heap[c[1]].recipe.k = "ConstVar"
           /\ ObjectId(st.heap[b[1]].recipe.val) = ObjectId(st.heap[c[1]].recipe.val))
            => b[2] = c[2]

\* C24: every tracers_to_jaxpr of a call returned a program, constants and
\* environment values that are aligned by position: the inputs are the
\* variables of the free variables in the order of the environment values,
\* then the variables of the declared input tracers in their order; the
\* constant-variables are in the order of the constants; and tracers that
\* hoist the same object have one constant-variable.
C24_LinearizationAligned ==
  pc = "called" =>
    \A i \in Events("tracers_to_jaxpr") :
      \A pairs \in {BoundOf(last.calls[i].args)} : Aligned(last.calls[i].args, pairs)

\* A linearization with a declared input where two tracers hoisted the same
\* array and got the same constant-variable.
C24_Witness ==
  /\ pc = "called" /\ last.err = NoError
  /\ \E i \in Events("tracers_to_jaxpr") :
       /\ Len(last.calls[i].args.in_tracers) >= 1
       /\ Len(last.calls[i].args.out.consts) = 1
       /\ \E b, c \in BoundOf(last.calls[i].args) :
            /\ b[1] # c[1] /\ b[2] = c[2]
            /\ st.heap[b[1]].recipe.k = "ConstVar" /\ st.heap[c[1]].recipe.k = "ConstVar"

\* A linearization with a declared input and a free variable: the program
\* has the variable of the free variable first.
C24_WitnessEnv ==
  /\ pc = "called" /\ last.err = NoError
  /\ \E i \in Events("tracers_to_jaxpr") :
       /\ Len(last.calls[i].args.in_tracers) >= 1
       /\ Len(last.calls[i].args.out.env) >= 1
       /\ \E b \in BoundOf(last.calls[i].args) :
            /\ st.heap[b[1]].recipe.k = "FreeVar"
            /\ last.calls[i].args.out.jaxpr.invars[1] = b[2]

\* ------------------------------------------------------------- C30

\* The last operation was a full_raise of a tracer whose sublevel is greater
\* than the target layer's.
RaisedFromInnerSublevel ==
  /\ last.op = "full_raise"
  /\ IsTracer(LastVal)
  /\ LastSrc.sublevel > last.trace.sublevel

\* C30: full_raise of a tracer whose sublevel is greater than the target
\* layer's raises the escape error and returns no tracer, when the tracer is
\* of the target layer's group and when it is of a group of a strictly lower
\* level.
C30_InnerSublevelRaises ==
  (RaisedFromInnerSublevel /\ (LastSrc.m = last.trace.m \/ LastSrc.level < last.trace.level))
    => RaisedEscape

\* A tracer made inside a sublevel scope and saved was raised, after that
\* scope exited, into the layer of its own group, which is still open.
C30_Witness ==
  /\ RaisedFromInnerSublevel
  /\ LastSrc.m = last.trace.m
  /\ LastSrc.m \in OpenMasters
  /\ LastVal.id \in store
  /\ RaisedEscape

\* The same, into the layer of a group of a higher level.
C30_WitnessLowerGroup ==
  /\ RaisedFromInnerSublevel
  /\ LastSrc.m # last.trace.m
  /\ LastSrc.level < last.trace.level
  /\ RaisedEscape

\* ------------------------------------------------------------- scopes

\* The open scopes of a nest, and the groups it makes, are bounded.
MaxNest == 3
MaxGroups == 4

\* The thread's stacks: the two lists of the layer stack and the sublevel
\* stack.
Stacks(S) == [upward |-> S.upward, downward |-> S.downward, substack |-> S.substack]

\* No exception is propagating.
InBody == ~Failed(st) /\ last.err = NoError

\* with new_master(JaxprTrace, bottom): the body starts. The scope remembers
\* the stacks it was entered with.
EnterMaster ==
  /\ InBody
  /\ Len(scopes) <= MaxNest
  /\ Len(st.masters) < MaxGroups
  /\ \E bottom \in BOOLEAN :
       \E r \in {new_master_enter(st, "JaxprTrace", bottom)} :
         /\ st' = r.S
         /\ scopes' = Append(scopes, [kind |-> "master", m |-> r.out, bottom |-> bottom,
                                      locals |-> {}, before |-> Stacks(st)])
         /\ last' = [op |-> "new_master", m |-> r.out, bottom |-> bottom] @@ Idle
  /\ UNCHANGED <<pc, fn, args, res, store>>

\* with new_sublevel(): the body starts.
EnterSublevel ==
  /\ InBody
  /\ Len(scopes) <= MaxNest
  /\ st' = new_sublevel_enter(st)
  /\ scopes' = Append(scopes, [kind |-> "sublevel", m |-> Len(st.substack), bottom |-> FALSE,
                               locals |-> {}, before |-> Stacks(st)])
  /\ last' = [op |-> "new_sublevel"] @@ Idle
  /\ UNCHANGED <<pc, fn, args, res, store>>

\* The body of the innermost scope raises: the exception propagates through
\* the open scopes.
RaiseInBody ==
  /\ InBody
  /\ Len(scopes) > 1
  /\ st' = [st EXCEPT !.err = "Exception"]
  /\ last' = [op |-> "raise"] @@ Idle
  /\ UNCHANGED <<pc, fn, args, res, scopes, store>>

\* The innermost new_master scope exits, its body done or an exception
\* propagating through it.
LeaveMaster ==
  /\ Top.kind = "master"
  /\ last.err = NoError
  /\ st' = new_master_exit(st, Top.bottom, Top.m, {})
  /\ scopes' = SubSeq(scopes, 1, Len(scopes) - 1)
  /\ last' = [op |-> "new_master.exit", m |-> Top.m, bottom |-> Top.bottom,
              before |-> Top.before, stacks |-> Stacks(st), raised |-> Failed(st)] @@ Idle
  /\ UNCHANGED <<pc, fn, args, res, store>>

\* The innermost new_sublevel scope exits, its body done or an exception
\* propagating through it.
LeaveSublevel ==
  /\ Top.kind = "sublevel"
  /\ last.err = NoError
  /\ st' = new_sublevel_exit(st)
  /\ scopes' = SubSeq(scopes, 1, Len(scopes) - 1)
  /\ last' = [op |-> "new_sublevel.exit", m |-> Top.m, before |-> Top.before,
              stacks |-> Stacks(st), raised |-> Failed(st)] @@ Idle
  /\ UNCHANGED <<pc, fn, args, res, store>>

\* The code outside every scope catches the exception.
Catch ==
  /\ Len(scopes) = 1
  /\ Failed(st)
  /\ st' = Handle(st)
  /\ last' = [op |-> "except"] @@ Idle
  /\ UNCHANGED <<pc, fn, args, res, scopes, store>>

NextScopes ==
  \/ EnableCheckLeaks
  \/ EnterMaster
  \/ EnterSublevel
  \/ RaiseInBody
  \/ LeaveMaster
  \/ LeaveSublevel
  \/ Catch

SpecScopes == InitSession /\ [][NextScopes]_vars

\* ------------------------------------------------------------- C22

\* The stacks after the entry of a scope that pushed m: a group on the list
\* of its side, or a sublevel.
Entered(before, kind, bottom, m) ==
  IF kind = "sublevel" THEN [before EXCEPT !.substack = Append(@, m)]
  ELSE IF bottom THEN [before EXCEPT !.downward = Append(@, m)]
  ELSE [before EXCEPT !.upward = Append(@, m)]

\* C22: the scopes nest and tear down last in, first out. When a new_master
\* or new_sublevel scope exits, its body done or raising, the stacks held
\* what the entry left (the inner scopes had restored them), the exit
\* removes the group or sublevel the entry pushed and nothing else, and the
\* layer stack and the sublevel stack are what they were before the entry.
C22_ScopeExitRestoresStacks ==
  /\ last.op = "new_master.exit" =>
       /\ last.stacks = Entered(last.before, "master", last.bottom, last.m)
       /\ Stacks(st) = last.before
  /\ last.op = "new_sublevel.exit" =>
       /\ last.stacks = Entered(last.before, "sublevel", FALSE, last.m)
       /\ Stacks(st) = last.before

\* A group scope exited because its body raised, with an older group still
\* open on the same list and a scope that had exited inside it before.
C22_Witness ==
  /\ last.op = "new_master.exit"
  /\ last.raised
  /\ ~last.bottom
  /\ Len(st.upward) >= 1
  /\ last.m < Len(st.masters)

\* ------------------------------------------------------------- C28

\* The groups on the thread's stack.
ActiveGroups(S) ==
  {S.upward[i] : i \in 1..Len(S.upward)} \cup {S.downward[i] : i \in 1..Len(S.downward)}

\* C28: the groups on the stack have pairwise distinct levels; a group
\* pushed normally has a level above every other group on the stack, and a
\* group pushed with bottom=True a negative level below every other one.
C28_ActiveLevelsDistinct ==
  /\ \A a, b \in ActiveGroups(st) : a # b => st.masters[a].level # st.masters[b].level
  /\ last.op = "new_master" =>
       /\ last.m \in ActiveGroups(st)
       /\ last.bottom => st.masters[last.m].level < 0
       /\ \A a \in ActiveGroups(st) \ {last.m} :
            IF last.bottom THEN st.masters[last.m].level < st.masters[a].level
            ELSE st.masters[last.m].level > st.masters[a].level

\* A second bottom group was pushed, after scopes entered and exited, with
\* a normal group open.
C28_Witness ==
  /\ last.op = "new_master"
  /\ last.bottom
  /\ Len(st.downward) = 2
  /\ Len(st.upward) >= 1
  /\ Len(st.masters) > Cardinality(ActiveGroups(st))

\* ------------------------------------------------------------- C27

\* The iterations of the process_env_traces loop that returned at record e:
\* the post_process_call records of the layers of its call, in order.
Iterations(e) ==
  Only({SubSequence(its, {k \in 1..Len(its) : its[k] < e}) :
          its \in {LayerEvents("post_process_call", last.calls[e].args.level)}})

\* C27: every process_env_traces loop that returned ran one iteration for
\* each of a sequence of layers of strictly decreasing level, all above the
\* call's level, so at most one for each group; it collected one todo in
\* each iteration, the todo of the iteration's layer; and none of the
\* outputs it returned is a tracer of a layer above the call's level.
C27_EnvTracesLoopDescends ==
  pc = "called" =>
    \A e \in Events("process_env_traces") :
      \A its \in {Iterations(e)} :
        /\ \A k \in 1..Len(its) : last.calls[its[k]].trace.level > last.calls[e].args.level
        /\ \A k \in 1..(Len(its) - 1) :
             last.calls[its[k + 1]].trace.level < last.calls[its[k]].trace.level
        /\ Len(its) <= Len(st.masters)
        /\ Len(last.calls[e].args.todo) = Len(its)
        /\ \A k \in 1..Len(its) :
             last.calls[e].args.todo[k].master = last.calls[its[k]].trace.m
        /\ \A i \in 1..Len(last.calls[e].args.outs) :
             IsTracer(last.calls[e].args.outs[i]) =>
               TraceOf(st, last.calls[e].args.outs[i]).level <= last.calls[e].args.level

\* A loop ran two iterations, for two layers, and returned.
C27_Witness ==
  /\ pc = "called"
  /\ last.err = NoError
  /\ \E e \in Events("process_env_traces") :
       /\ Len(Iterations(e)) = 2
       /\ Len(last.calls[e].args.todo) = 2

\* ------------------------------------------------------------- C23

\* C23 as stated, for the Program objects convert_constvars_jaxpr made: after
\* partial_eval_jaxpr every object the cache holds has the constant-variable,
\* input, output and equation lists it was made with.
C23_ProgramsNeverMutated ==
  pc = "split" =>
    \A i \in 1..Len(res.cache) : res.cache[i].held = res.cache[i].made

\* The split had a residual: the cached Program was made with the residual
\* first in its inputs and now has it last.
C23_Reordered ==
  /\ pc = "split" /\ res.err = NoError
  /\ \E i \in 1..Len(res.cache) :
       /\ res.cache[i].key.constvars # <<>>
       /\ res.cache[i].made.invars = res.cache[i].key.constvars \o res.cache[i].key.invars
       /\ res.cache[i].held.invars = res.cache[i].key.invars \o res.cache[i].key.constvars
       /\ res.cache[i].held = res.out.typed_jaxpr_2.jaxpr

====
